---- MODULE Spec2Model ----
(***************************************************************************)
(* Keyboard selection of the console host (src/host/selectionInput.cpp):   *)
(* the key dispatcher, the line-selection extender, the word scanner, the  *)
(* mark-mode navigator and the boundary computations, over a small screen  *)
(* buffer whose rows carry the double-width (leading/trailing) attributes. *)
(***************************************************************************)
EXTENDS Integers, Sequences, FiniteSets, TLC

\* ------------------------------------------------------------------ bounds

\* screen buffer size (GetScreenBufferSize): columns and rows
BufferWidth == 4
BufferHeight == 3
\* GetScreenWindowSizeY
WindowHeight == 2
\* number of rows the text fixture fills (FillTextBuffer fills the first rows)
FilledRows == 1
\* the longest string the find-and-color search is given
SEARCH_STRING_LENGTH == 3

\* ------------------------------------------------------------ coordinates

Coord(x, y) == [X |-> x, Y |-> y]

NoPoint == Coord(-9, -9)

\* Utils::s_GetCurrentBufferEdges: the inclusive rectangle of the buffer
BufferEdges ==
    [Left |-> 0, Top |-> 0, Right |-> BufferWidth - 1, Bottom |-> BufferHeight - 1]

Cells == {Coord(x, y) : x \in 0..(BufferWidth - 1), y \in 0..(BufferHeight - 1)}

InBuffer(p) ==
    /\ p.X >= BufferEdges.Left /\ p.X <= BufferEdges.Right
    /\ p.Y >= BufferEdges.Top /\ p.Y <= BufferEdges.Bottom

\* SHORT arithmetic: the value of a 16-bit signed integer after wrap-around
Wrap16(n) == ((n + 32768) % 65536) - 32768

\* Utils::s_CompareCoords: reading order, row first and then column
\* (negative, zero or positive)
s_CompareCoords(a, b) ==
    IF a.Y = b.Y THEN a.X - b.X ELSE (a.Y - b.Y) * BufferWidth + (a.X - b.X)

\* Utils::s_DoIncrementScreenCoordinate: one step forward with wrap-around to
\* the next row; fails (and leaves the point alone) at the bottom right corner
s_DoIncrementScreenCoordinate(edges, p) ==
    IF p.X = edges.Right
    THEN IF p.Y < edges.Bottom
         THEN [ok |-> TRUE, p |-> Coord(edges.Left, p.Y + 1)]
         ELSE [ok |-> FALSE, p |-> p]
    ELSE [ok |-> TRUE, p |-> Coord(p.X + 1, p.Y)]

\* Utils::s_DoDecrementScreenCoordinate: one step back with wrap-around to the
\* previous row; fails (and leaves the point alone) at the top left corner
s_DoDecrementScreenCoordinate(edges, p) ==
    IF p.X = edges.Left
    THEN IF p.Y > edges.Top
         THEN [ok |-> TRUE, p |-> Coord(edges.Right, p.Y - 1)]
         ELSE [ok |-> FALSE, p |-> p]
    ELSE [ok |-> TRUE, p |-> Coord(p.X - 1, p.Y)]

\* Utils::s_AddToPosition: add a count of cells in wrapped buffer coordinates,
\* held inside the buffer
s_AddToPosition(edges, iAdd, p) ==
    LET width == edges.Right - edges.Left + 1
        last == (edges.Bottom + 1) * width - 1
        flat == p.Y * width + p.X + iAdd
        held == IF flat < 0 THEN 0 ELSE IF flat > last THEN last ELSE flat
    IN  Coord(held % width, held \div width)

\* SCREEN_INFORMATION::ClipToScreenBuffer for a coordinate
ClipCoord(p) ==
    Coord(IF p.X < 0 THEN 0 ELSE IF p.X > BufferEdges.Right THEN BufferEdges.Right ELSE p.X,
          IF p.Y < 0 THEN 0 ELSE IF p.Y > BufferEdges.Bottom THEN BufferEdges.Bottom ELSE p.Y)

\* SCREEN_INFORMATION::ClipToScreenBuffer for a rectangle
ClipRect(r) ==
    LET cx(v) == IF v < 0 THEN 0 ELSE IF v > BufferEdges.Right THEN BufferEdges.Right ELSE v
        cy(v) == IF v < 0 THEN 0 ELSE IF v > BufferEdges.Bottom THEN BufferEdges.Bottom ELSE v
    IN  [Left |-> cx(r.Left), Top |-> cy(r.Top), Right |-> cx(r.Right), Bottom |-> cy(r.Bottom)]

\* ------------------------------------------------------ the text buffers

\* CHAR_ROW::KAttrs of a cell
ATTR_NONE == "none"
ATTR_LEADING_BYTE == "leading"
ATTR_TRAILING_BYTE == "trailing"
KAttrValues == {ATTR_NONE, ATTR_LEADING_BYTE, ATTR_TRAILING_BYTE}

\* The buffers of the unit-test state: an empty buffer, the FillTextBuffer
\* fixture (the first rows hold text with one double-width glyph, the rest is
\* blank) and the FillTextBufferBisect fixture (every row starts with the
\* trailing half of a glyph and ends with a leading half).
BufferKinds == {"blank", "text", "bisect"}

\* Rows of single-width text with any words in them: the buffer "words<n>"
\* has in every row a delimiter (a space) in column x exactly when bit x of n
\* is set, and a letter in the other columns.
WordKinds == {"words" \o ToString(n) : n \in 0..(2^BufferWidth - 1)}

DelimBits(kind) == CHOOSE n \in 0..(2^BufferWidth - 1) : kind = "words" \o ToString(n)

\* FillRow: a double-width glyph in the middle of the text
FillRowAttr(x) ==
    IF x = 1 /\ BufferWidth >= 3 THEN ATTR_LEADING_BYTE
    ELSE IF x = 2 THEN ATTR_TRAILING_BYTE
    ELSE ATTR_NONE

\* FillBisect: trailing half at column 0, leading half at the last column and
\* double-width glyphs inside the row
FillBisectAttr(x) ==
    IF x = 0 THEN ATTR_TRAILING_BYTE
    ELSE IF x = BufferWidth - 1 THEN ATTR_LEADING_BYTE
    ELSE IF x = 1 /\ BufferWidth >= 4 THEN ATTR_LEADING_BYTE
    ELSE IF x = 2 /\ BufferWidth >= 4 THEN ATTR_TRAILING_BYTE
    ELSE ATTR_NONE

\* pRow->CharRow.KAttrs[x] of row y, for a column inside the row
KAttrs(kind, x, y) ==
    CASE kind = "blank" -> ATTR_NONE
      [] kind = "text" -> IF y < FilledRows THEN FillRowAttr(x) ELSE ATTR_NONE
      [] kind = "bisect" -> FillBisectAttr(x)
      [] kind \in WordKinds -> ATTR_NONE

\* IS_WORD_DELIM(pRow->CharRow.Chars[x]) of row y: blank cells are spaces;
\* FillRow writes text followed by spaces, FillBisect writes no space
IsWordDelim(kind, x, y) ==
    CASE kind = "blank" -> TRUE
      [] kind = "text" -> IF y < FilledRows THEN x >= 3 /\ x % 2 = 1 ELSE TRUE
      [] kind = "bisect" -> FALSE
      [] kind \in WordKinds -> (DelimBits(kind) \div (2^x)) % 2 = 1

\* ------------------------------------------------------------------ state

VARIABLES
    screen,        \* which text buffer CurrentScreenBuffer->TextInfo holds
    cooked,        \* lpCookedReadData: the edit line being typed, or absent
    settings,      \* _fLineSelectionEnabled, GetEnableColorSelection and the
                   \* attributes of the screen buffer (GetAttributes)
    cursor,        \* the text cursor: position and has-moved flag
    sel,           \* the Selection object's fields
    last           \* the last call: its event, what it returned and the points
                   \* the line handler computed (for stating the properties)

vars == <<screen, cooked, settings, cursor, sel, last>>

\* keys (virtual key codes) the handlers tell apart
NavKeys == {"VK_LEFT", "VK_RIGHT", "VK_UP", "VK_DOWN", "VK_NEXT", "VK_PRIOR", "VK_HOME", "VK_END"}
Keys == NavKeys \cup {"VK_ESCAPE", "VK_RETURN", "C", "VK_INSERT", "3", "VK_SHIFT", "A"}

\* INPUT_KEY_INFO: a virtual key and the modifiers held with it. The key states
\* the input services report (GetKeyState) are those of the same key press.
Events == [key : Keys, shift : BOOLEAN, ctrl : BOOLEAN, alt : BOOLEAN]

Event(k, fShift, fCtrl, fAlt) == [key |-> k, shift |-> fShift, ctrl |-> fCtrl, alt |-> fAlt]

\* the key presses tried on every selection: each navigation key alone, with
\* Shift and with Shift+Ctrl, Escape with every combination of modifiers, and
\* the other keys
CoreEvents ==
    { Event(k, m[1], m[2], m[3]) :
        k \in NavKeys,
        m \in { <<FALSE, FALSE, FALSE>>, <<TRUE, FALSE, FALSE>>, <<TRUE, TRUE, FALSE>> } }
    \cup { Event("VK_ESCAPE", m.shift, m.ctrl, m.alt) :
             m \in [shift : BOOLEAN, ctrl : BOOLEAN, alt : BOOLEAN] }
    \cup { Event("VK_RETURN", FALSE, FALSE, FALSE), Event("VK_RETURN", TRUE, FALSE, TRUE),
           Event("C", FALSE, TRUE, FALSE), Event("C", FALSE, FALSE, FALSE),
           Event("VK_INSERT", FALSE, TRUE, FALSE),
           Event("3", FALSE, FALSE, FALSE), Event("3", FALSE, FALSE, TRUE),
           Event("3", FALSE, TRUE, FALSE),
           Event("VK_SHIFT", TRUE, FALSE, FALSE), Event("A", FALSE, FALSE, FALSE) }

\* INPUT_KEY_INFO::IsShiftOnly
IsShiftOnly(ev) == ev.shift /\ ~ev.ctrl /\ ~ev.alt

\* INPUT_KEY_INFO::IsShiftAndCtrlOnly
IsShiftAndCtrlOnly(ev) == ev.shift /\ ev.ctrl /\ ~ev.alt

\* IsSystemKey: the pure modifier and lock keys
IsSystemKey(key) == key = "VK_SHIFT"

\* The edit lines tried: none; one inside row 1; one cell long at column 1 and at
\* column 2 of row 1; one that wraps into the next row; one whose recorded
\* start is the invalid position; one with nothing visible yet.
NoCookedRead == [present |-> FALSE, start |-> Coord(0, 0), visible |-> 0]
AllCookedReads ==
    { NoCookedRead,
      [present |-> TRUE, start |-> Coord(1, 1), visible |-> 2],
      [present |-> TRUE, start |-> Coord(1, 1), visible |-> 1],
      [present |-> TRUE, start |-> Coord(2, 1), visible |-> 1],
      [present |-> TRUE, start |-> Coord(2, 1), visible |-> BufferWidth],
      [present |-> TRUE, start |-> Coord(-1, -1), visible |-> 1],
      [present |-> TRUE, start |-> Coord(1, 1), visible |-> 0] }

\* an edit line starts where the cursor stood, never on a trailing half
CookedReads(kind) ==
    { c \in AllCookedReads :
        ~c.present \/ c.start.X < 0
            \/ KAttrs(kind, c.start.X, c.start.Y) # ATTR_TRAILING_BYTE }

\* where the cursor is when the console starts taking keys: behind the edit
\* line that is being typed, else in the middle of the buffer
InitCursor(c) ==
    IF c.present /\ c.start.X >= 0
    THEN s_AddToPosition(BufferEdges, c.visible, c.start)
    ELSE Coord(1, 1)

\* where the mouse is pressed and dragged to (the mouse path is not part of
\* the keyboard selection; it makes the selections the keys then work on)
MouseCells == {Coord(0, 0), Coord(2, 1), Coord(BufferWidth - 1, BufferHeight - 1)}

EmptyRect == [Left |-> 0, Top |-> 0, Right |-> 0, Bottom |-> 0]

\* Selection::Selection: nothing selected
NoSelection ==
    [ selecting |-> FALSE,      \* IsInSelectingState
      mouse |-> FALSE,          \* CONSOLE_MOUSE_SELECTION
      notEmpty |-> FALSE,       \* CONSOLE_SELECTION_NOT_EMPTY
      mouseDown |-> FALSE,      \* CONSOLE_MOUSE_DOWN
      visible |-> FALSE,        \* _fSelectionVisible
      alt |-> FALSE,            \* _fUseAlternateSelection
      anchor |-> Coord(0, 0),   \* _coordSelectionAnchor
      rect |-> EmptyRect,       \* _srSelectionRect
      saved |-> Coord(0, 0) ]   \* _coordSavedCursorPosition

NoCall ==
    [ op |-> "none", ev |-> [key |-> "A", shift |-> FALSE, ctrl |-> FALSE, alt |-> FALSE],
      via |-> "none", result |-> "none", from |-> NoPoint, moved |-> NoPoint, ext |-> NoPoint,
      area |-> FALSE,      \* IsAreaSelected() when the call was made
      calls |-> <<>> ]     \* the calls _HandleColorSelection made, in their order

\* ciFill.Attributes: blue and green on a bright red background
FillAttributes == 195

\* the state after construction, for the buffers, edit lines and settings tried
InitOf(kinds, reads, sets) ==
    /\ screen \in kinds
    /\ cooked \in CookedReads(screen) \cap reads
    /\ settings \in {[line |-> st.line, color |-> st.color, attributes |-> FillAttributes] :
                       st \in sets}
    /\ cursor = [pos |-> InitCursor(cooked), hasMoved |-> FALSE]
    /\ sel = NoSelection
    /\ last = NoCall

\* ------------------------------------------------- the Selection object

\* Selection::IsLineSelection
IsLineSelection(s) == (settings.line /\ ~s.alt) \/ (~settings.line /\ s.alt)

\* Selection::_AlignAlternateSelection
AlignAlternateSelection(s, fAlignToLineSelect) ==
    [s EXCEPT !.alt = IF fAlignToLineSelect THEN ~settings.line ELSE settings.line]

\* Selection::ShowSelection / HideSelection (_SetSelectionVisibility)
SetSelectionVisibility(s, fMakeVisible) ==
    IF s.selecting /\ s.notEmpty THEN [s EXCEPT !.visible = fMakeVisible] ELSE s

\* Selection::InitializeMouseSelection
InitializeMouseSelection(s, p) ==
    [s EXCEPT !.selecting = TRUE, !.mouse = TRUE, !.notEmpty = TRUE, !.mouseDown = FALSE,
              !.anchor = p,
              !.rect = [Left |-> p.X, Top |-> p.Y, Right |-> p.X, Bottom |-> p.Y]]

\* Selection::ExtendSelection: the rectangle spanned by the anchor and the
\* clipped point; an empty mouse selection is not extended
ExtendSelection(s, point) ==
    LET p == ClipCoord(point)
        a == s.anchor
    IN  IF ~s.notEmpty /\ s.mouse
        THEN s
        ELSE [s EXCEPT !.notEmpty = TRUE,
                       !.visible = TRUE,
                       !.rect = [Left |-> IF p.X <= a.X THEN p.X ELSE a.X,
                                 Right |-> IF p.X <= a.X THEN a.X ELSE p.X,
                                 Top |-> IF p.Y <= a.Y THEN p.Y ELSE a.Y,
                                 Bottom |-> IF p.Y <= a.Y THEN a.Y ELSE p.Y]]

\* Selection::ClearSelection (CancelMouseSelection / CancelMarkSelection): the
\* selection is hidden, the flags are reset, the anchor and the rectangle are
\* cleared and the selecting state is left
ClearSelection(s) ==
    IF s.selecting
    THEN [s EXCEPT !.selecting = FALSE, !.mouse = FALSE, !.notEmpty = FALSE,
                   !.mouseDown = FALSE, !.visible = FALSE, !.alt = FALSE,
                   !.anchor = Coord(0, 0), !.rect = EmptyRect]
    ELSE s

\* CancelMarkSelection puts the cursor back where mark mode found it
CursorAfterClear(s, c) ==
    IF s.selecting /\ ~s.mouse THEN [c EXCEPT !.pos = s.saved] ELSE c

\* ------------------------------------------------- boundary computations

\* a variant of the edit line's end: counted from the recorded start whatever
\* the start is
s_GetInputLineBoundariesFromStart(cursorPos) ==
    IF ~cooked.present \/ cooked.visible <= 0
    THEN [ok |-> FALSE, start |-> NoPoint, end |-> NoPoint]
    ELSE [ok |-> TRUE, start |-> cooked.start,
          end |-> s_AddToPosition(BufferEdges, -1,
                                  s_AddToPosition(BufferEdges, cooked.visible, cooked.start))]

\* Selection::s_GetInputLineBoundaries: the first and last cell of the edit
\* line; ok is FALSE when there is no edit line or nothing of it is visible
s_GetInputLineBoundaries(cursorPos) ==
    IF ~cooked.present \/ cooked.visible <= 0
    THEN [ok |-> FALSE, start |-> NoPoint, end |-> NoPoint]
    ELSE LET coordStart == cooked.start
             coordEnd == IF coordStart.X < 0 /\ coordStart.Y < 0
                         THEN cursorPos
                         ELSE s_AddToPosition(BufferEdges, cooked.visible, coordStart)
         IN  [ok |-> TRUE, start |-> coordStart,
              end |-> s_AddToPosition(BufferEdges, -1, coordEnd)]

\* a variant of the valid area: without an edit line it ends at the cursor
GetValidAreaBoundariesAtCursor(s, cursorPos) ==
    LET input == s_GetInputLineBoundaries(cursorPos)
    IN  [start |-> Coord(0, 0),
         end |-> IF input.ok THEN input.end ELSE cursorPos]

\* Selection::GetValidAreaBoundaries: from the origin to the end of the edit
\* line, else to the saved cursor of a mark selection, else to the cursor
GetValidAreaBoundaries(s, cursorPos) ==
    LET input == s_GetInputLineBoundaries(cursorPos)
    IN  [start |-> Coord(0, 0),
         end |-> IF input.ok THEN input.end
                 ELSE IF s.selecting /\ ~s.mouse THEN s.saved
                 ELSE cursorPos]

\* a variant of the test: the end of the boundary is not part of it
s_IsWithinBoundariesBeforeEnd(coordPosition, coordStart, coordEnd) ==
    s_CompareCoords(coordStart, coordPosition) <= 0
        /\ s_CompareCoords(coordPosition, coordEnd) < 0

\* Selection::s_IsWithinBoundaries
s_IsWithinBoundaries(coordPosition, coordStart, coordEnd) ==
    s_CompareCoords(coordStart, coordPosition) <= 0
        /\ s_CompareCoords(coordPosition, coordEnd) <= 0

\* ------------------------------------------------------- the word scanner

\* a variant of the step: at the first or last cell of the buffer it goes
\* round to the other end instead of failing
ScanStepWrappingAround(fReverse, edges, p) ==
    IF fReverse
    THEN IF p.X = edges.Left /\ p.Y = edges.Top
         THEN [ok |-> TRUE, p |-> Coord(edges.Right, edges.Bottom)]
         ELSE s_DoDecrementScreenCoordinate(edges, p)
    ELSE IF p.X = edges.Right /\ p.Y = edges.Bottom
         THEN [ok |-> TRUE, p |-> Coord(edges.Left, edges.Top)]
         ELSE s_DoIncrementScreenCoordinate(edges, p)

\* one step of the scan in its direction
ScanStep(fReverse, edges, p) ==
    IF fReverse THEN s_DoDecrementScreenCoordinate(edges, p)
    ELSE s_DoIncrementScreenCoordinate(edges, p)

\* the do-while loop of WordByWordSelection from point p, whose cell is a
\* delimiter or not (fCurrIsDelim): where it ends, fMoveSucceeded, and the
\* number of times the body of the loop was entered
RECURSIVE WordScanLoop(_, _, _, _, _, _)
WordScanLoop(fReverse, edges, coordMaxLeft, coordMaxRight, p, fCurrIsDelim) ==
    IF s_CompareCoords(p, coordMaxLeft) = 0 THEN [p |-> p, moved |-> FALSE, n |-> 1]
    ELSE IF s_CompareCoords(p, coordMaxRight) >= 0 THEN [p |-> p, moved |-> FALSE, n |-> 1]
    ELSE LET step == ScanStep(fReverse, edges, p)
             fNext == IsWordDelim(screen, step.p.X, step.p.Y)
             fAgain == IF ~fReverse THEN ~(fCurrIsDelim /\ ~fNext)
                       ELSE ~(~fCurrIsDelim /\ fNext)
         IN  IF ~step.ok THEN [p |-> p, moved |-> FALSE, n |-> 1]
             ELSE IF fAgain
                  THEN LET rest == WordScanLoop(fReverse, edges, coordMaxLeft, coordMaxRight,
                                                step.p, fNext)
                       IN  [rest EXCEPT !.n = rest.n + 1]
                  ELSE [p |-> step.p, moved |-> TRUE, n |-> 1]

\* a variant of the correction after the loop: one more step in the direction
\* of the scan
WordStepBackSameDirection(fReverse, edges, p) == ScanStep(fReverse, edges, p)

\* "move back by one character after proceeding through the loop": the step
\* against the direction of the scan and whether it succeeded
WordStepBack(fReverse, edges, p) == ScanStep(~fReverse, edges, p)

\* a variant of the scan whose limits are the buffer's corners whether or not
\* there is an edit line
WordByWordSelectionOverWholeBuffer(fReverse, edges, coordAnchor, coordSelPoint, cursorPos) ==
    LET first == ScanStep(fReverse, edges, coordSelPoint).p
        coordMaxLeft == Coord(edges.Left, edges.Top)
        coordMaxRight == Coord(edges.Right, edges.Bottom)
        fUnhighlighting == IF ~fReverse THEN s_CompareCoords(first, coordAnchor) < 0
                           ELSE s_CompareCoords(first, coordAnchor) > 0
        loop == WordScanLoop(fReverse, edges, coordMaxLeft, coordMaxRight, first,
                             IsWordDelim(screen, first.X, first.Y))
    IN  IF loop.moved /\ ~fUnhighlighting
        THEN ScanStep(~fReverse, edges, loop.p).p
        ELSE loop.p

\* a variant of the scan that steps back from the transition cell whether the
\* movement highlights or un-highlights
WordByWordSelectionAlwaysSteppingBack(fReverse, edges, coordAnchor, coordSelPoint, cursorPos) ==
    LET first == ScanStep(fReverse, edges, coordSelPoint).p
        input == s_GetInputLineBoundaries(cursorPos)
        coordMaxLeft == IF input.ok THEN input.start ELSE Coord(edges.Left, edges.Top)
        coordMaxRight == IF input.ok THEN input.end ELSE Coord(edges.Right, edges.Bottom)
        loop == WordScanLoop(fReverse, edges, coordMaxLeft, coordMaxRight, first,
                             IsWordDelim(screen, first.X, first.Y))
    IN  IF loop.moved
        THEN ScanStep(~fReverse, edges, loop.p).p
        ELSE loop.p

\* a variant of the scan whose left limit is the buffer's top-left corner
\* whether or not there is an edit line
WordByWordSelectionWithoutLeftLimit(fReverse, edges, coordAnchor, coordSelPoint, cursorPos) ==
    LET first == ScanStep(fReverse, edges, coordSelPoint).p
        input == s_GetInputLineBoundaries(cursorPos)
        coordMaxLeft == Coord(edges.Left, edges.Top)
        coordMaxRight == IF input.ok THEN input.end ELSE Coord(edges.Right, edges.Bottom)
        fUnhighlighting == IF ~fReverse THEN s_CompareCoords(first, coordAnchor) < 0
                           ELSE s_CompareCoords(first, coordAnchor) > 0
        loop == WordScanLoop(fReverse, edges, coordMaxLeft, coordMaxRight, first,
                             IsWordDelim(screen, first.X, first.Y))
    IN  IF loop.moved /\ ~fUnhighlighting
        THEN ScanStep(~fReverse, edges, loop.p).p
        ELSE loop.p

\* a variant of the scan that starts at the selection point itself, without
\* the step that first shifts it in the direction of the scan
WordByWordSelectionWithoutFirstStep(fReverse, edges, coordAnchor, coordSelPoint, cursorPos) ==
    LET first == coordSelPoint
        input == s_GetInputLineBoundaries(cursorPos)
        coordMaxLeft == IF input.ok THEN input.start ELSE Coord(edges.Left, edges.Top)
        coordMaxRight == IF input.ok THEN input.end ELSE Coord(edges.Right, edges.Bottom)
        fUnhighlighting == IF ~fReverse THEN s_CompareCoords(first, coordAnchor) < 0
                           ELSE s_CompareCoords(first, coordAnchor) > 0
        loop == WordScanLoop(fReverse, edges, coordMaxLeft, coordMaxRight, first,
                             IsWordDelim(screen, first.X, first.Y))
    IN  IF loop.moved /\ ~fUnhighlighting
        THEN ScanStep(~fReverse, edges, loop.p).p
        ELSE loop.p

\* the body of WordByWordSelection: the final point, with the point after the
\* initial step, where the loop ended and how (fMoveSucceeded), the number of
\* times its body was entered, and what the correction after it did
WordScan(fReverse, edges, coordAnchor, coordSelPoint, cursorPos) ==
    LET first == ScanStep(fReverse, edges, coordSelPoint).p
        input == s_GetInputLineBoundaries(cursorPos)
        coordMaxLeft == IF input.ok THEN input.start ELSE Coord(edges.Left, edges.Top)
        coordMaxRight == IF input.ok THEN input.end ELSE Coord(edges.Right, edges.Bottom)
        fUnhighlighting == IF ~fReverse THEN s_CompareCoords(first, coordAnchor) < 0
                           ELSE s_CompareCoords(first, coordAnchor) > 0
        loop == WordScanLoop(fReverse, edges, coordMaxLeft, coordMaxRight, first,
                             IsWordDelim(screen, first.X, first.Y))
        back == WordStepBack(fReverse, edges, loop.p)
    IN  [p |-> IF loop.moved /\ ~fUnhighlighting THEN back.p ELSE loop.p,
         reverse |-> fReverse, first |-> first, loopEnd |-> loop.p, moved |-> loop.moved,
         iterations |-> loop.n,
         correction |-> IF ~(loop.moved /\ ~fUnhighlighting) THEN "none"
                        ELSE IF back.ok THEN "moved" ELSE "failed"]

\* Selection::WordByWordSelection: the selection point moved to the edge of
\* the next (or, in reverse, the previous) word
WordByWordSelection(fReverse, edges, coordAnchor, coordSelPoint, cursorPos) ==
    WordScan(fReverse, edges, coordAnchor, coordSelPoint, cursorPos).p

\* --------------------------------------------- the line-selection extender

\* a variant of the validity check: the Shift+Ctrl switch lists the same eight
\* keys as the Shift switch
s_IsValidKeyboardLineSelectionAnyNavKey(ev) ==
    (IsShiftOnly(ev) \/ IsShiftAndCtrlOnly(ev)) /\ ev.key \in NavKeys

\* Selection::s_IsValidKeyboardLineSelection
s_IsValidKeyboardLineSelection(ev) ==
    IF IsShiftOnly(ev)
    THEN ev.key \in {"VK_LEFT", "VK_RIGHT", "VK_UP", "VK_DOWN",
                     "VK_NEXT", "VK_PRIOR", "VK_HOME", "VK_END"}
    ELSE IF IsShiftAndCtrlOnly(ev)
    THEN ev.key \in {"VK_LEFT", "VK_RIGHT", "VK_UP", "VK_DOWN", "VK_HOME", "VK_END"}
    ELSE FALSE

\* the corner of the selection rectangle that is not the anchor
SelectionPoint(coordAnchor, rectSelection) ==
    Coord(IF coordAnchor.X = rectSelection.Left THEN rectSelection.Right ELSE rectSelection.Left,
          IF coordAnchor.Y = rectSelection.Top THEN rectSelection.Bottom ELSE rectSelection.Top)

\* a variant of case VK_RIGHT with Shift: one cell forward whatever the cell
\* holds
LineShiftRightOneCell(edges, p) == s_DoIncrementScreenCoordinate(edges, p).p

\* case VK_RIGHT with Shift: one cell forward, and one more off a trailing half
LineShiftRight(edges, p) ==
    LET q == s_DoIncrementScreenCoordinate(edges, p).p
    IN  IF KAttrs(screen, q.X, q.Y) = ATTR_TRAILING_BYTE
        THEN s_DoIncrementScreenCoordinate(edges, q).p
        ELSE q

\* case VK_UP / VK_DOWN (with Shift, and with Shift+Ctrl): one row, held at
\* the top and bottom of the buffer
LineUp(edges, p) == IF p.Y > edges.Top THEN Coord(p.X, p.Y - 1) ELSE p

LineDown(edges, p) == IF p.Y < edges.Bottom THEN Coord(p.X, p.Y + 1) ELSE p

\* SCREEN_INFORMATION::GetScreenWindowSizeY: the window height of the settings
\* where a specification varies it, else the height all the others work with
GetScreenWindowSizeY ==
    IF "window" \in DOMAIN settings THEN settings.window ELSE WindowHeight

\* case VK_NEXT / VK_PRIOR: one window height in 16-bit arithmetic, then held
\* at the bottom / top
LinePageDown(edges, sWindowHeight, p) ==
    LET y == Wrap16(p.Y + sWindowHeight)
    IN  Coord(p.X, IF y > edges.Bottom THEN edges.Bottom ELSE y)

LinePageUp(edges, sWindowHeight, p) ==
    LET y == Wrap16(p.Y - sWindowHeight)
    IN  Coord(p.X, IF y < edges.Top THEN edges.Top ELSE y)

\* a variant of case VK_HOME: the comparison with the start of the edit line
\* is >= instead of >
LineHomeAtOrAfterStart(input, p) ==
    IF input.ok /\ s_CompareCoords(p, input.start) >= 0 /\ input.start.Y = p.Y
    THEN Coord(input.start.X, p.Y)
    ELSE Coord(0, p.Y)

\* case VK_HOME with Shift
LineHome(input, p) ==
    IF input.ok /\ s_CompareCoords(p, input.start) > 0 /\ input.start.Y = p.Y
    THEN Coord(input.start.X, p.Y)
    ELSE Coord(0, p.Y)

\* a variant of case VK_END: the comparison with the end of the edit line is
\* <= instead of <
LineEndUpToEndColumn(edges, input, p) ==
    LET sEndOfOutputPos == Wrap16(input.start.X - 1)
    IN  IF input.ok /\ s_CompareCoords(p, input.start) >= 0
             /\ input.end.Y = p.Y /\ p.X <= input.end.X
        THEN Coord(input.end.X, p.Y)
        ELSE IF input.ok /\ s_CompareCoords(p, input.start) < 0
                  /\ input.start.Y = p.Y /\ p.X < sEndOfOutputPos
        THEN Coord(sEndOfOutputPos, p.Y)
        ELSE IF input.ok /\ s_CompareCoords(p, input.start) < 0
                  /\ input.start.Y = p.Y /\ p.X = sEndOfOutputPos
                  /\ p.Y = input.end.Y
        THEN Coord(input.end.X, p.Y)
        ELSE Coord(edges.Right, p.Y)

\* a variant of case VK_END: the test "not already on the end of the input"
\* is left out
LineEndIgnoringColumn(edges, input, p) ==
    LET sEndOfOutputPos == Wrap16(input.start.X - 1)
    IN  IF input.ok /\ s_CompareCoords(p, input.start) >= 0 /\ input.end.Y = p.Y
        THEN Coord(input.end.X, p.Y)
        ELSE IF input.ok /\ s_CompareCoords(p, input.start) < 0
                  /\ input.start.Y = p.Y /\ p.X < sEndOfOutputPos
        THEN Coord(sEndOfOutputPos, p.Y)
        ELSE IF input.ok /\ s_CompareCoords(p, input.start) < 0
                  /\ input.start.Y = p.Y /\ p.X = sEndOfOutputPos
                  /\ p.Y = input.end.Y
        THEN Coord(input.end.X, p.Y)
        ELSE Coord(edges.Right, p.Y)

\* case VK_END with Shift
LineEnd(edges, input, p) ==
    LET sEndOfOutputPos == Wrap16(input.start.X - 1)
    IN  IF input.ok /\ s_CompareCoords(p, input.start) >= 0
             /\ input.end.Y = p.Y /\ p.X < input.end.X
        THEN Coord(input.end.X, p.Y)
        ELSE IF input.ok /\ s_CompareCoords(p, input.start) < 0
                  /\ input.start.Y = p.Y /\ p.X < sEndOfOutputPos
        THEN Coord(sEndOfOutputPos, p.Y)
        ELSE IF input.ok /\ s_CompareCoords(p, input.start) < 0
                  /\ input.start.Y = p.Y /\ p.X = sEndOfOutputPos
                  /\ p.Y = input.end.Y
        THEN Coord(input.end.X, p.Y)
        ELSE Coord(edges.Right, p.Y)

\* a variant of the two switch statements: the second one has no case for
\* VK_UP and VK_DOWN
LineMoveWithoutCtrlUpDown(ev, s, cursorPos, edges, p) ==
    LET input == s_GetInputLineBoundaries(cursorPos)
    IN  IF IsShiftOnly(ev)
        THEN CASE ev.key = "VK_LEFT" -> s_DoDecrementScreenCoordinate(edges, p).p
               [] ev.key = "VK_RIGHT" -> LineShiftRight(edges, p)
               [] ev.key = "VK_UP" -> LineUp(edges, p)
               [] ev.key = "VK_DOWN" -> LineDown(edges, p)
               [] ev.key = "VK_NEXT" -> LinePageDown(edges, GetScreenWindowSizeY, p)
               [] ev.key = "VK_PRIOR" -> LinePageUp(edges, GetScreenWindowSizeY, p)
               [] ev.key = "VK_HOME" -> LineHome(input, p)
               [] ev.key = "VK_END" -> LineEnd(edges, input, p)
               [] OTHER -> p
        ELSE IF IsShiftAndCtrlOnly(ev)
        THEN CASE ev.key = "VK_LEFT" -> WordByWordSelection(TRUE, edges, s.anchor, p, cursorPos)
               [] ev.key = "VK_RIGHT" -> WordByWordSelection(FALSE, edges, s.anchor, p, cursorPos)
               [] ev.key = "VK_HOME" -> GetValidAreaBoundaries(s, cursorPos).start
               [] ev.key = "VK_END" -> GetValidAreaBoundaries(s, cursorPos).end
               [] OTHER -> p
        ELSE p

\* the two switch statements of HandleKeyboardLineSelectionEvent: where a
\* valid key moves the selection point
LineMove(ev, s, cursorPos, edges, p) ==
    LET input == s_GetInputLineBoundaries(cursorPos)
    IN  IF IsShiftOnly(ev)
        THEN CASE ev.key = "VK_LEFT" -> s_DoDecrementScreenCoordinate(edges, p).p
               [] ev.key = "VK_RIGHT" -> LineShiftRight(edges, p)
               [] ev.key = "VK_UP" -> LineUp(edges, p)
               [] ev.key = "VK_DOWN" -> LineDown(edges, p)
               [] ev.key = "VK_NEXT" -> LinePageDown(edges, GetScreenWindowSizeY, p)
               [] ev.key = "VK_PRIOR" -> LinePageUp(edges, GetScreenWindowSizeY, p)
               [] ev.key = "VK_HOME" -> LineHome(input, p)
               [] ev.key = "VK_END" -> LineEnd(edges, input, p)
               [] OTHER -> p
        ELSE IF IsShiftAndCtrlOnly(ev)
        THEN CASE ev.key = "VK_LEFT" -> WordByWordSelection(TRUE, edges, s.anchor, p, cursorPos)
               [] ev.key = "VK_RIGHT" -> WordByWordSelection(FALSE, edges, s.anchor, p, cursorPos)
               [] ev.key = "VK_UP" -> LineUp(edges, p)
               [] ev.key = "VK_DOWN" -> LineDown(edges, p)
               [] ev.key = "VK_HOME" -> GetValidAreaBoundaries(s, cursorPos).start
               [] ev.key = "VK_END" -> GetValidAreaBoundaries(s, cursorPos).end
               [] OTHER -> p
        ELSE p

\* "ensure we're not planting the cursor in the middle of a double-wide
\* character": off a trailing half one cell back, or forward when that fails
MoveOffTrailingByte(edges, p) ==
    IF KAttrs(screen, p.X, p.Y) = ATTR_TRAILING_BYTE
    THEN LET back == s_DoDecrementScreenCoordinate(edges, p)
         IN  IF back.ok THEN back.p ELSE s_DoIncrementScreenCoordinate(edges, p).p
    ELSE p

\* "if we're not currently selecting anything, start a new mouse selection"
\* at the cursor, forced to be a line selection, and shown
StartLineSelection(s, cursorPos) ==
    IF ~s.selecting
    THEN SetSelectionVisibility(
             AlignAlternateSelection(InitializeMouseSelection(s, cursorPos), TRUE), TRUE)
    ELSE s

LineNotHandled(s) ==
    [sel |-> s, handled |-> FALSE, from |-> NoPoint, moved |-> NoPoint, ext |-> NoPoint]

\* a variant of the handler past the validity check: the first key of a new
\* selection moves the point whatever the key is
LineExtendMovingOnFirstKey(s, cursorPos, ev) ==
    LET s1 == StartLineSelection(s, cursorPos)
        from == SelectionPoint(s1.anchor, s1.rect)
        moved == LineMove(ev, s1, cursorPos, BufferEdges, from)
        ext == MoveOffTrailingByte(BufferEdges, moved)
    IN  [sel |-> ExtendSelection(s1, ext), handled |-> TRUE,
         from |-> from, moved |-> moved, ext |-> ext]

\* the handler once the key combination is known to be valid
LineExtend(s, cursorPos, ev) ==
    LET s1 == StartLineSelection(s, cursorPos)
    IN  IF ~s.selecting /\ IsShiftOnly(ev) /\ ev.key \in {"VK_LEFT", "VK_RIGHT"}
        THEN [sel |-> s1, handled |-> TRUE, from |-> NoPoint, moved |-> NoPoint, ext |-> NoPoint]
        ELSE LET coordAnchor == s1.anchor
                 from == SelectionPoint(coordAnchor, s1.rect)
                 moved == LineMove(ev, s1, cursorPos, BufferEdges, from)
                 ext == MoveOffTrailingByte(BufferEdges, moved)
             IN  [sel |-> ExtendSelection(s1, ext), handled |-> TRUE,
                  from |-> from, moved |-> moved, ext |-> ext]

\* a variant of the handler: the new selection is started before the key
\* combination is checked
HandleKeyboardLineSelectionEventStartingFirst(s, cursorPos, ev) ==
    IF ~s_IsValidKeyboardLineSelection(ev)
    THEN [LineNotHandled(s) EXCEPT !.sel = StartLineSelection(s, cursorPos)]
    ELSE LineExtend(s, cursorPos, ev)

\* Selection::HandleKeyboardLineSelectionEvent: the selection after the key,
\* whether the key was handled, and the selection point before the move, after
\* it, and as passed to ExtendSelection
HandleKeyboardLineSelectionEvent(s, cursorPos, ev) ==
    IF ~s_IsValidKeyboardLineSelection(ev)
    THEN LineNotHandled(s)
    ELSE LineExtend(s, cursorPos, ev)

\* ------------------------------------------------- the mark-mode navigator

\* iNextRightX: two columns over a leading half, else one. bHere is what
\* KAttrs[cursorPos.X] reads
NextRightX(bHere) == IF bHere = ATTR_LEADING_BYTE THEN 2 ELSE 1

\* a variant of the step left: one column wherever the two listed cases do not
\* apply
NextLeftXOneElsewhere(cursorPos) ==
    IF cursorPos.X > 0
    THEN IF KAttrs(screen, cursorPos.X - 1, cursorPos.Y) = ATTR_TRAILING_BYTE THEN 2
         ELSE IF /\ KAttrs(screen, cursorPos.X - 1, cursorPos.Y) = ATTR_LEADING_BYTE
                 /\ cursorPos.X - 1 > 0
                 /\ KAttrs(screen, cursorPos.X - 2, cursorPos.Y) = ATTR_TRAILING_BYTE
         THEN 3
         ELSE 1
    ELSE 0

\* iNextLeftX: by the one or two cells left of the cursor
NextLeftX(cursorPos) ==
    IF cursorPos.X > 0
    THEN IF KAttrs(screen, cursorPos.X - 1, cursorPos.Y) = ATTR_TRAILING_BYTE THEN 2
         ELSE IF KAttrs(screen, cursorPos.X - 1, cursorPos.Y) = ATTR_LEADING_BYTE
         THEN IF cursorPos.X - 1 > 0
              THEN IF KAttrs(screen, cursorPos.X - 2, cursorPos.Y) = ATTR_TRAILING_BYTE
                   THEN 3 ELSE 2
              ELSE 1
         ELSE 1
    ELSE 0

\* a variant of the switch: PageDown and PageUp move by the whole window
\* height
MarkModeMoveByWindowHeight(ev, s, cursorPos, bHere) ==
    CASE ev.key = "VK_RIGHT" ->
            IF cursorPos.X + NextRightX(bHere) < BufferWidth
            THEN Coord(cursorPos.X + NextRightX(bHere), cursorPos.Y) ELSE cursorPos
      [] ev.key = "VK_LEFT" ->
            IF cursorPos.X > 0
            THEN Coord(cursorPos.X - NextLeftX(cursorPos), cursorPos.Y) ELSE cursorPos
      [] ev.key = "VK_UP" ->
            IF cursorPos.Y > 0 THEN Coord(cursorPos.X, cursorPos.Y - 1) ELSE cursorPos
      [] ev.key = "VK_DOWN" ->
            IF cursorPos.Y + 1 < BufferHeight
            THEN Coord(cursorPos.X, cursorPos.Y + 1) ELSE cursorPos
      [] ev.key = "VK_NEXT" ->
            LET y == cursorPos.Y + WindowHeight
            IN  Coord(cursorPos.X, IF y >= BufferHeight THEN BufferHeight - 1 ELSE y)
      [] ev.key = "VK_PRIOR" ->
            LET y == cursorPos.Y - WindowHeight
            IN  Coord(cursorPos.X, IF y < 0 THEN 0 ELSE y)
      [] ev.key = "VK_END" ->
            Coord(BufferWidth - 1,
                  IF ev.ctrl THEN GetValidAreaBoundaries(s, cursorPos).end.Y ELSE cursorPos.Y)
      [] ev.key = "VK_HOME" ->
            Coord(0, IF ev.ctrl THEN 0 ELSE cursorPos.Y)
      [] OTHER -> cursorPos

\* the switch of _HandleMarkModeSelectionNav: where a navigation key puts the
\* cursor
MarkModeMove(ev, s, cursorPos, bHere) ==
    CASE ev.key = "VK_RIGHT" ->
            IF cursorPos.X + NextRightX(bHere) < BufferWidth
            THEN Coord(cursorPos.X + NextRightX(bHere), cursorPos.Y) ELSE cursorPos
      [] ev.key = "VK_LEFT" ->
            IF cursorPos.X > 0
            THEN Coord(cursorPos.X - NextLeftX(cursorPos), cursorPos.Y) ELSE cursorPos
      [] ev.key = "VK_UP" ->
            IF cursorPos.Y > 0 THEN Coord(cursorPos.X, cursorPos.Y - 1) ELSE cursorPos
      [] ev.key = "VK_DOWN" ->
            IF cursorPos.Y + 1 < BufferHeight
            THEN Coord(cursorPos.X, cursorPos.Y + 1) ELSE cursorPos
      [] ev.key = "VK_NEXT" ->
            LET y == cursorPos.Y + (WindowHeight - 1)
            IN  Coord(cursorPos.X, IF y >= BufferHeight THEN BufferHeight - 1 ELSE y)
      [] ev.key = "VK_PRIOR" ->
            LET y == cursorPos.Y - (WindowHeight - 1)
            IN  Coord(cursorPos.X, IF y < 0 THEN 0 ELSE y)
      [] ev.key = "VK_END" ->
            Coord(BufferWidth - 1,
                  IF ev.ctrl THEN GetValidAreaBoundaries(s, cursorPos).end.Y ELSE cursorPos.Y)
      [] ev.key = "VK_HOME" ->
            Coord(0, IF ev.ctrl THEN 0 ELSE cursorPos.Y)
      [] OTHER -> cursorPos

\* Selection::CheckAndSetAlternateSelection
CheckAndSetAlternateSelection(s, fAltDown) == [s EXCEPT !.alt = fAltDown]

\* a variant of the extension: the Alt key is looked at on every key
MarkModeExtendSamplingAlt(s, ev, pos) ==
    ExtendSelection(CheckAndSetAlternateSelection(s, ev.alt), pos)

\* "see if shift is down. if so, we're extending the selection": the Alt key
\* is looked at when nothing is selected yet, and the selection is extended
MarkModeExtend(s, ev, pos) ==
    ExtendSelection(IF ~s.notEmpty THEN CheckAndSetAlternateSelection(s, ev.alt) ELSE s, pos)

\* a variant of the reset: the alternate selection flag is left as it is
MarkModeResetAnchorKeepingAlt(s, pos) ==
    LET s1 == IF s.notEmpty
              THEN [SetSelectionVisibility(s, FALSE) EXCEPT !.notEmpty = FALSE]
              ELSE s
    IN  [s1 EXCEPT !.anchor = pos,
                   !.rect = [Left |-> pos.X, Top |-> pos.Y, Right |-> pos.X, Bottom |-> pos.Y]]

\* "otherwise, we're resetting the anchor": a selection that was not empty is
\* hidden and emptied, and the anchor is put under the cursor
MarkModeResetAnchor(s, pos) ==
    LET s1 == IF s.notEmpty
              THEN [SetSelectionVisibility(s, FALSE) EXCEPT !.notEmpty = FALSE, !.alt = FALSE]
              ELSE s
    IN  [s1 EXCEPT !.anchor = pos,
                   !.rect = [Left |-> pos.X, Top |-> pos.Y, Right |-> pos.X, Bottom |-> pos.Y]]

\* a variant of the Shift test: the anchor is reset whether Shift is down or not
MarkModeSelectionAlwaysResets(s, ev, pos) == MarkModeResetAnchor(s, pos)

\* the selection after a navigation key of mark mode
MarkModeSelection(s, ev, pos) ==
    IF ev.shift THEN MarkModeExtend(s, ev, pos) ELSE MarkModeResetAnchor(s, pos)

\* Selection::_HandleMarkModeSelectionNav
HandleMarkModeSelectionNav(s, c, ev, bHere) ==
    IF ev.key \in NavKeys
    THEN LET pos == MarkModeMove(ev, s, c.pos, bHere)
         IN  [sel |-> MarkModeSelection(s, ev, pos),
              cursor |-> [pos |-> pos, hasMoved |-> IF ev.shift THEN c.hasMoved ELSE TRUE],
              handled |-> TRUE, from |-> c.pos,
              ext |-> IF ev.shift THEN pos ELSE NoPoint]
    ELSE [sel |-> s, cursor |-> c, handled |-> FALSE, from |-> NoPoint, ext |-> NoPoint]

\* --------------------------------------------------- the color selection

\* the digit keys, and wVirtualKeyCode - '0'
DigitKeys == {ToString(d) : d \in 0..9}

DigitOf(key) == CHOOSE d \in 0..9 : key = ToString(d)

\* a | b on unsigned integers
RECURSIVE BitOr(_, _)
BitOr(a, b) ==
    IF a = 0 THEN b
    ELSE IF b = 0 THEN a
    ELSE (IF a % 2 = 1 \/ b % 2 = 1 THEN 1 ELSE 0) + 2 * BitOr(a \div 2, b \div 2)

\* w & 0xf0
BackgroundBits(w) == ((w \div 16) % 16) * 16

\* a variant of the Shift test: the find-and-color path over any selected area
ShiftPressedOverAnyArea(s, ev) == ev.shift /\ s.notEmpty

\* fShiftPressed: Shift asks for find-and-color; it is ignored when no area is
\* selected or the selection is more than one row high
ShiftPressed(s, ev) ==
    ev.shift /\ ~(~s.notEmpty \/ s.rect.Top # s.rect.Bottom)

\* fCtrlPressed: "If CTRL + ALT together, then we interpret as ALT"
CtrlPressed(ev) == IF ~ev.alt THEN ev.ctrl ELSE FALSE

\* a variant of the test for a color key: every digit is one
ColorRequestedByAnyDigit(ev) == TRUE

\* "If ALT or CTRL are pressed, then color the selected area"
ColorRequested(ev) == ev.alt \/ CtrlPressed(ev)

\* a variant of the attribute: the color index is the digit itself
ColorAttributeWithoutOffset(key, fCtrlPressed, legacy) ==
    IF fCtrlPressed THEN DigitOf(key) * 16
    ELSE BitOr(DigitOf(key), BackgroundBits(legacy))

\* ulAttr: the digit's color as the background over a black foreground for
\* Ctrl, else as the foreground over the current background (a ULONG, far
\* wider than the values it takes, which are below 256)
ColorAttribute(key, fCtrlPressed, legacy) ==
    IF fCtrlPressed THEN (DigitOf(key) + 6) * 16
    ELSE BitOr(DigitOf(key) + 6, BackgroundBits(legacy))

\* a call of a collaborator: its name, the cells and the length and the
\* attribute it is given
Call(name, rect, len, attr) == [call |-> name, rect |-> rect, len |-> len, attr |-> attr]

\* the string pulled out of the buffer: cLength cells of the top row from the
\* left column on
SearchString(rect) ==
    LET span == rect.Right - rect.Left + 1
        cLength == IF span < 0 \/ span > SEARCH_STRING_LENGTH THEN SEARCH_STRING_LENGTH ELSE span
    IN  [rect |-> [Left |-> rect.Left, Top |-> rect.Top,
                   Right |-> rect.Left + cLength - 1, Bottom |-> rect.Top],
         len |-> cLength]

\* a variant of the calls: the selection is cleared before it is colored or
\* read
ColorCallsClearingFirst(rect, fShiftPressed, ulAttr) ==
    IF fShiftPressed
    THEN << Call("ClearSelection", EmptyRect, 0, 0),
            Call("memmove", SearchString(EmptyRect).rect, SearchString(EmptyRect).len, 0),
            Call("SearchForString", SearchString(EmptyRect).rect, SearchString(EmptyRect).len,
                 ulAttr) >>
    ELSE << Call("ClearSelection", EmptyRect, 0, 0),
            Call("ColorSelection", EmptyRect, 0, ulAttr) >>

\* what is called with Alt or Ctrl down: for find-and-color the string is
\* copied out of the row, the selection is cleared and the search is called;
\* otherwise the selection is colored and cleared
ColorCalls(rect, fShiftPressed, ulAttr) ==
    IF fShiftPressed
    THEN << Call("memmove", SearchString(rect).rect, SearchString(rect).len, 0),
            Call("ClearSelection", EmptyRect, 0, 0),
            Call("SearchForString", SearchString(rect).rect, SearchString(rect).len, ulAttr) >>
    ELSE << Call("ColorSelection", rect, 0, ulAttr),
            Call("ClearSelection", EmptyRect, 0, 0) >>

\* Selection::_HandleColorSelection: the selection rectangle is clipped to the
\* buffer; with Alt or Ctrl the selection is colored (or searched for) and
\* cleared
HandleColorSelection(s, c, ev) ==
    LET s1 == [s EXCEPT !.rect = ClipRect(s.rect)]
    IN  IF ColorRequested(ev)
        THEN [sel |-> ClearSelection(s1), cursor |-> CursorAfterClear(s1, c), handled |-> TRUE,
              calls |-> ColorCalls(s1.rect, ShiftPressed(s, ev),
                                   ColorAttribute(ev.key, CtrlPressed(ev), settings.attributes))]
        ELSE [sel |-> s1, cursor |-> c, handled |-> FALSE, calls |-> <<>>]

\* ------------------------------------------------------- the dispatcher

\* a variant of the cancel: system keys cancel the selection too
CancelOnAnyKey(s, key) == ClearSelection(s)

\* "if in mouse selection mode and user hits a key, cancel selection":
\* any key but a system key
CancelOnKey(s, key) == IF ~IsSystemKey(key) THEN ClearSelection(s) ELSE s

\* what the dispatcher does after the Escape / copy / color keys were tried:
\* mark-mode navigation for a keyboard selection; for a mouse selection with
\* no button down the line-selection keys, and any other key but a system key
\* cancels the selection
MarkDispatched(nav) ==
    [sel |-> nav.sel, cursor |-> nav.cursor,
     result |-> IF nav.handled THEN "EventHandled" ELSE "EventNotHandled",
     from |-> nav.from, moved |-> NoPoint, ext |-> nav.ext,
     op |-> IF nav.handled THEN "mark" ELSE "none", calls |-> <<>>]

LineDispatched(s, c, ev, line) ==
    IF line.handled
    THEN [sel |-> line.sel, cursor |-> c, result |-> "EventHandled",
          from |-> line.from, moved |-> line.moved, ext |-> line.ext, op |-> "line",
          calls |-> <<>>]
    ELSE [sel |-> CancelOnKey(line.sel, ev.key),
          cursor |-> c, result |-> "EventNotHandled",
          from |-> NoPoint, moved |-> NoPoint, ext |-> NoPoint,
          op |-> IF IsLineSelection(s) THEN "lineRejected" ELSE "none", calls |-> <<>>]

DispatchByMode(s, c, ev, bHere) ==
    IF ~s.mouse
    THEN MarkDispatched(HandleMarkModeSelectionNav(s, c, ev, bHere))
    ELSE IF ~s.mouseDown
    THEN LineDispatched(s, c, ev, IF IsLineSelection(s)
                                  THEN HandleKeyboardLineSelectionEvent(s, c.pos, ev)
                                  ELSE LineNotHandled(s))
    ELSE [sel |-> s, cursor |-> c, result |-> "EventNotHandled",
          from |-> NoPoint, moved |-> NoPoint, ext |-> NoPoint, op |-> "none",
          calls |-> <<>>]

\* the result of a key that ends the dispatcher before the selection modes
Dispatched(s, c, result, op) ==
    [sel |-> s, cursor |-> c, result |-> result,
     from |-> NoPoint, moved |-> NoPoint, ext |-> NoPoint, op |-> op, calls |-> <<>>]

\* a variant of the Escape branch: the event is reported handled and the
\* selection is kept
HandleEscapeKeepingSelection(s, c) == Dispatched(s, c, "EventHandled", "escape")

\* "if escape ..., cancel selection"
HandleEscape(s, c) ==
    Dispatched(ClearSelection(s), CursorAfterClear(s, c), "EventHandled", "escape")

\* a variant of the copy keys: Ctrl+Insert is missing
IsCopyKeyWithoutInsert(ev) ==
    ev.key = "VK_RETURN" \/ (ev.ctrl /\ ev.key = "C")

\* Enter, Ctrl+C and Ctrl+Insert copy the selection
IsCopyKey(ev) ==
    ev.key = "VK_RETURN" \/ (ev.ctrl /\ (ev.key = "C" \/ ev.key = "VK_INSERT"))

\* "copy selection": the caller copies, the selection is left as it is
HandleCopy(s, c) == Dispatched(s, c, "CopyToClipboard", "copy")

\* '0' <= wVirtualKeyCode <= '9'
IsDigitKey(key) == key \in DigitKeys

\* the dispatcher's result when _HandleColorSelection has handled the key
ColorDispatched(color) ==
    [sel |-> color.sel, cursor |-> color.cursor, result |-> "EventHandled",
     from |-> NoPoint, moved |-> NoPoint, ext |-> NoPoint, op |-> "color",
     calls |-> color.calls]

\* Selection::HandleKeySelectionEvent
HandleKeySelectionEvent(s, c, ev, bHere) ==
    LET color == HandleColorSelection(s, c, ev)
    IN  IF ~s.mouseDown /\ ev.key = "VK_ESCAPE"
        THEN HandleEscape(s, c)
        ELSE IF ~s.mouseDown /\ IsCopyKey(ev)
        THEN HandleCopy(s, c)
        ELSE IF ~s.mouseDown /\ settings.color /\ IsDigitKey(ev.key)
        THEN IF color.handled
             THEN ColorDispatched(color)
             ELSE DispatchByMode(color.sel, color.cursor, ev, bHere)
        ELSE DispatchByMode(s, c, ev, bHere)

\* ------------------------------------------------------------- actions

NoEvent == Event("A", FALSE, FALSE, FALSE)

\* the record of a step that is no key press
Outside(name) ==
    [op |-> name, ev |-> NoEvent, via |-> "none", result |-> "none",
     from |-> NoPoint, moved |-> NoPoint, ext |-> NoPoint, area |-> FALSE, calls |-> <<>>]

\* what KAttrs[cursorPos.X] can read: the attribute of the cell, or any byte
\* when a step left has put the cursor before column 0
AttrUnderCursor ==
    IF cursor.pos.X >= 0 /\ cursor.pos.X < BufferWidth
    THEN {KAttrs(screen, cursor.pos.X, cursor.pos.Y)}
    ELSE KAttrValues

\* a key of the set arrives while the console is in selecting state
KeySelectionEventOf(events) ==
    /\ sel.selecting
    /\ \E ev \in events, bHere \in AttrUnderCursor :
          \E r \in {HandleKeySelectionEvent(sel, cursor, ev, bHere)} :
              /\ sel' = r.sel
              /\ cursor' = r.cursor
              /\ last' = [op |-> r.op, ev |-> ev, via |-> "dispatcher", result |-> r.result,
                          from |-> r.from, moved |-> r.moved, ext |-> r.ext,
                          area |-> sel.notEmpty, calls |-> r.calls]
    /\ UNCHANGED <<screen, cooked, settings>>

\* the input path offers a key of the set to HandleKeyboardLineSelectionEvent
\* itself: with nothing selected, or over a mouse selection with no button down
LineSelectionEventOf(events) ==
    /\ ~sel.selecting \/ (sel.mouse /\ ~sel.mouseDown)
    /\ \E ev \in events :
          \E r \in {HandleKeyboardLineSelectionEvent(sel, cursor.pos, ev)} :
              /\ sel' = r.sel
              /\ last' = [op |-> IF r.handled THEN "line" ELSE "lineRejected", ev |-> ev,
                          via |-> "direct",
                          result |-> IF r.handled THEN "handled" ELSE "notHandled",
                          from |-> r.from, moved |-> r.moved, ext |-> r.ext,
                          area |-> sel.notEmpty, calls |-> <<>>]
    /\ UNCHANGED <<screen, cooked, settings, cursor>>

\* the mouse path: a button press starts a new mouse selection at the cell
\* (with Alt held, the alternate selection mode)
MouseButtonDown ==
    /\ ~sel.mouseDown
    /\ \E p \in MouseCells, fAltDown \in BOOLEAN :
          LET s0 == ClearSelection(sel)
              s1 == [InitializeMouseSelection(s0, p) EXCEPT !.mouseDown = TRUE]
              s2 == IF fAltDown THEN CheckAndSetAlternateSelection(s1, TRUE) ELSE s1
          IN  /\ sel' = SetSelectionVisibility(s2, TRUE)
              /\ cursor' = CursorAfterClear(sel, cursor)
    /\ last' = Outside("mouseDown")
    /\ UNCHANGED <<screen, cooked, settings>>

\* the mouse path: the pressed mouse moves and the selection follows
MouseMove ==
    /\ sel.selecting /\ sel.mouse /\ sel.mouseDown
    /\ \E p \in MouseCells : sel' = ExtendSelection(sel, p)
    /\ last' = Outside("mouseMove")
    /\ UNCHANGED <<screen, cooked, settings, cursor>>

\* the mouse path: the button is released
MouseButtonUp ==
    /\ sel.selecting /\ sel.mouse /\ sel.mouseDown
    /\ sel' = [sel EXCEPT !.mouseDown = FALSE]
    /\ last' = Outside("mouseUp")
    /\ UNCHANGED <<screen, cooked, settings, cursor>>

\* Selection::InitializeMarkSelection: mark mode is entered; the cursor is
\* remembered and the anchor is put under it
EnterMarkMode ==
    /\ ~sel.mouseDown
    /\ LET s0 == ClearSelection(sel)
           c0 == CursorAfterClear(sel, cursor)
       IN  /\ sel' = [s0 EXCEPT !.selecting = TRUE, !.mouse = FALSE, !.notEmpty = FALSE,
                                !.mouseDown = FALSE, !.saved = c0.pos, !.anchor = c0.pos]
           /\ cursor' = c0
    /\ last' = Outside("markMode")
    /\ UNCHANGED <<screen, cooked, settings>>

\* ------------------------------------------------------ specifications

\* The whole selection: keys through the dispatcher and straight to the line
\* handler, the mouse and mark mode, over the bisect fixture.
Init ==
    InitOf({"bisect"}, {NoCookedRead}, [line : BOOLEAN, color : BOOLEAN])

KeySelectionEvent == KeySelectionEventOf(CoreEvents)

\* with nothing selected the input path offers the key to the line handler;
\* while selecting, every key goes through the dispatcher
LineSelectionEvent ==
    /\ ~sel.selecting
    /\ LineSelectionEventOf(CoreEvents)

Next ==
    \/ KeySelectionEvent
    \/ LineSelectionEvent
    \/ MouseButtonDown
    \/ MouseMove
    \/ MouseButtonUp
    \/ EnterMarkMode

Spec == Init /\ [][Next]_vars

\* The line-selection extender alone, over every buffer and edit line: a
\* selection started by the keys at the cursor or by a mouse click, then
\* moved by the keys.
LineEvents ==
    { Event(k, TRUE, c, FALSE) : k \in NavKeys, c \in BOOLEAN }
    \cup { Event("VK_HOME", FALSE, FALSE, FALSE), Event("VK_END", TRUE, FALSE, TRUE),
           Event("A", TRUE, FALSE, FALSE) }

InitLine == InitOf(BufferKinds, AllCookedReads, {[line |-> TRUE, color |-> FALSE]})

LineKey == LineSelectionEventOf(LineEvents)

LineClick ==
    /\ ~sel.selecting
    /\ \E p \in MouseCells :
          sel' = SetSelectionVisibility(InitializeMouseSelection(sel, p), TRUE)
    /\ last' = Outside("mouseDown")
    /\ UNCHANGED <<screen, cooked, settings, cursor>>

NextLine ==
    \/ LineKey
    \/ LineClick

SpecLine == InitLine /\ [][NextLine]_vars

\* Mark mode alone, over every buffer: the navigation keys alone, with Shift,
\* with Shift+Alt, with Ctrl and with Shift+Ctrl, and Escape.
MarkEvents ==
    { Event(k, m[1], m[2], m[3]) :
        k \in NavKeys,
        m \in { <<FALSE, FALSE, FALSE>>, <<TRUE, FALSE, FALSE>>, <<TRUE, FALSE, TRUE>>,
                <<FALSE, TRUE, FALSE>>, <<TRUE, TRUE, FALSE>> } }
    \cup { Event("VK_ESCAPE", FALSE, FALSE, FALSE) }

InitMark ==
    InitOf(BufferKinds, {NoCookedRead, [present |-> TRUE, start |-> Coord(1, 1), visible |-> 2]},
           {[line |-> TRUE, color |-> FALSE]})

MarkKey == KeySelectionEventOf(MarkEvents)

MarkModeStart ==
    /\ ~sel.selecting
    /\ EnterMarkMode

NextMark ==
    \/ MarkKey
    \/ MarkModeStart

SpecMark == InitMark /\ [][NextMark]_vars

\* The validity check of the line handler, over every key and every
\* combination of modifiers.
InitKeys == InitOf({"text"}, {NoCookedRead}, {[line |-> TRUE, color |-> FALSE]})

AnyLineKey == LineSelectionEventOf(Events)

NextKeys == AnyLineKey

SpecKeys == InitKeys /\ [][NextKeys]_vars

\* The word scanner alone, over rows of every text: an anchor and a selection
\* point are taken anywhere in the buffer, the point is scanned forward to the
\* edge of the next word and from there in reverse.
WordReads ==
    { NoCookedRead,
      [present |-> TRUE, start |-> Coord(1, 1), visible |-> 2],
      [present |-> TRUE, start |-> Coord(2, 0), visible |-> BufferWidth] }

\* no scan made yet
NoScan ==
    [p |-> NoPoint, reverse |-> FALSE, first |-> NoPoint, loopEnd |-> NoPoint,
     moved |-> FALSE, iterations |-> 0, correction |-> "none"]

InitWord ==
    /\ screen \in WordKinds
    /\ cooked \in WordReads
    /\ settings = [line |-> TRUE, color |-> FALSE, attributes |-> FillAttributes]
    /\ cursor = [pos |-> InitCursor(cooked), hasMoved |-> FALSE]
    /\ sel \in {InitializeMouseSelection(NoSelection, a) : a \in Cells}
    /\ last \in {[NoCall EXCEPT !.op = "wordStart", !.ext = p] @@ [scan |-> NoScan] :
                   p \in Cells}

\* WordByWordSelection(false, ...) from the point taken
WordForward ==
    /\ last.op = "wordStart"
    /\ last' = [last EXCEPT !.op = "wordForward", !.from = last.ext,
                            !.moved = WordByWordSelection(FALSE, BufferEdges, sel.anchor,
                                                          last.ext, cursor.pos),
                            !.ext = NoPoint,
                            !.scan = WordScan(FALSE, BufferEdges, sel.anchor,
                                              last.ext, cursor.pos)]
    /\ UNCHANGED <<screen, cooked, settings, cursor, sel>>

\* WordByWordSelection(true, ...) from where the forward scan ended
WordReverse ==
    /\ last.op = "wordForward"
    /\ last' = [last EXCEPT !.op = "wordReverse",
                            !.ext = WordByWordSelection(TRUE, BufferEdges, sel.anchor,
                                                        last.moved, cursor.pos),
                            !.scan = WordScan(TRUE, BufferEdges, sel.anchor,
                                              last.moved, cursor.pos)]
    /\ UNCHANGED <<screen, cooked, settings, cursor, sel>>

\* WordByWordSelection(true, ...) from the point taken
WordBack ==
    /\ last.op = "wordStart"
    /\ last' = [last EXCEPT !.op = "wordBack", !.from = last.ext,
                            !.ext = WordByWordSelection(TRUE, BufferEdges, sel.anchor,
                                                        last.ext, cursor.pos),
                            !.scan = WordScan(TRUE, BufferEdges, sel.anchor,
                                              last.ext, cursor.pos)]
    /\ UNCHANGED <<screen, cooked, settings, cursor, sel>>

NextWord ==
    \/ WordForward
    \/ WordReverse
    \/ WordBack

SpecWord == InitWord /\ [][NextWord]_vars

\* The color keys over selections of every kind: digits with every
\* combination of modifiers, over keyboard selections made in mark mode and
\* over mouse selections, with color selection enabled.
ColorDigits == {"0", "3", "9"}

ColorEvents ==
    { Event(k, m.shift, m.ctrl, m.alt) :
        k \in ColorDigits, m \in [shift : BOOLEAN, ctrl : BOOLEAN, alt : BOOLEAN] }
    \cup { Event(k, fShift, FALSE, FALSE) : k \in {"VK_RIGHT", "VK_DOWN"}, fShift \in BOOLEAN }

InitColor ==
    /\ screen = "text"
    /\ cooked = NoCookedRead
    /\ settings \in {[line |-> TRUE, color |-> TRUE, attributes |-> a] :
                       a \in {FillAttributes, BackgroundBits(FillAttributes) \div 16}}
    /\ cursor = [pos |-> InitCursor(cooked), hasMoved |-> FALSE]
    /\ sel = NoSelection
    /\ last = NoCall

ColorKey == KeySelectionEventOf(ColorEvents)

NextColor ==
    \/ ColorKey
    \/ MarkModeStart
    \/ MouseButtonDown
    \/ MouseMove
    \/ MouseButtonUp

SpecColor == InitColor /\ [][NextColor]_vars

\* The color attribute alone: every digit with Alt, Ctrl or both, over every
\* background and foreground the screen buffer can have, pressed in mark mode
\* before anything is selected.
LegacyAttributes ==
    { 256 * h + 16 * b + f : h \in {0, 1, 128}, b \in 0..15, f \in {0, 3, 15} }

AttrEvents ==
    { Event(k, FALSE, m.ctrl, m.alt) : k \in DigitKeys, m \in [ctrl : BOOLEAN, alt : BOOLEAN] }

InitAttr ==
    /\ screen = "blank"
    /\ cooked = NoCookedRead
    /\ settings \in {[line |-> TRUE, color |-> TRUE, attributes |-> a] : a \in LegacyAttributes}
    /\ cursor = [pos |-> InitCursor(cooked), hasMoved |-> FALSE]
    /\ sel = NoSelection
    /\ last = NoCall

AttrKey == KeySelectionEventOf(AttrEvents)

NextAttr ==
    \/ AttrKey
    \/ MarkModeStart

SpecAttr == InitAttr /\ [][NextAttr]_vars

\* The boundaries of the edit line and of the valid area, over every buffer
\* and edit line: asked for with the cursor where the keys of mark mode have
\* put it, with a mark selection, a line selection or none, and used by
\* Ctrl+End and Ctrl+Home in mark mode and with Shift in the line handler.
AreaEvents ==
    { Event(k, fShift, TRUE, FALSE) : k \in {"VK_END", "VK_HOME"}, fShift \in BOOLEAN }
    \cup { Event(k, FALSE, FALSE, FALSE) : k \in {"VK_RIGHT", "VK_UP", "VK_DOWN", "VK_ESCAPE"} }

InitArea == InitOf(BufferKinds, AllCookedReads, {[line |-> TRUE, color |-> FALSE]})

AreaKey == KeySelectionEventOf(AreaEvents)

AreaLineKey ==
    /\ ~sel.selecting
    /\ LineSelectionEventOf(AreaEvents)

\* s_GetInputLineBoundaries(&coordStart, &coordEnd)
InputLineBoundaries ==
    /\ \E b \in {s_GetInputLineBoundaries(cursor.pos)} :
          last' = [Outside("inputLine") EXCEPT !.result = IF b.ok THEN "true" ELSE "false",
                                               !.from = b.start, !.moved = b.end]
    /\ UNCHANGED <<screen, cooked, settings, cursor, sel>>

\* GetValidAreaBoundaries(&coordValidStart, &coordValidEnd)
ValidAreaBoundaries ==
    /\ \E b \in {GetValidAreaBoundaries(sel, cursor.pos)} :
          last' = [Outside("validArea") EXCEPT !.from = b.start, !.moved = b.end]
    /\ UNCHANGED <<screen, cooked, settings, cursor, sel>>

NextArea ==
    \/ AreaKey
    \/ AreaLineKey
    \/ MarkModeStart
    \/ InputLineBoundaries
    \/ ValidAreaBoundaries

SpecArea == InitArea /\ [][NextArea]_vars

\* The boundary test alone: a position and the two ends of a boundary are
\* taken anywhere in the buffer (the start also at the invalid position an edit
\* line can record), and the test is applied.
BoundaryStarts == Cells \cup {Coord(-1, -1)}

InitWithin ==
    /\ screen = "blank"
    /\ cooked = NoCookedRead
    /\ settings = [line |-> TRUE, color |-> FALSE, attributes |-> FillAttributes]
    /\ cursor = [pos |-> InitCursor(cooked), hasMoved |-> FALSE]
    /\ sel = NoSelection
    /\ last \in {[NoCall EXCEPT !.op = "boundary", !.from = a, !.moved = b, !.ext = c] :
                   a \in BoundaryStarts, b \in Cells, c \in Cells}

\* s_IsWithinBoundaries(coordPosition, coordStart, coordEnd)
IsWithinBoundaries ==
    /\ last.op = "boundary"
    /\ last' = [last EXCEPT !.op = "within",
                            !.result = IF s_IsWithinBoundaries(last.moved, last.from, last.ext)
                                       THEN "true" ELSE "false"]
    /\ UNCHANGED <<screen, cooked, settings, cursor, sel>>

NextWithin == IsWithinBoundaries

SpecWithin == InitWithin /\ [][NextWithin]_vars

\* Shift+PageDown and Shift+PageUp alone: the case of the switch is applied
\* to a selection point anywhere in the buffer, for window heights from one row
\* up to the largest a SHORT can hold.
MaxShort == 2^15 - 1

WindowHeights == (1..(BufferHeight + 2)) \cup ((MaxShort - BufferHeight)..MaxShort)

InitPage ==
    /\ screen = "blank"
    /\ cooked = NoCookedRead
    /\ settings \in {[line |-> TRUE, color |-> FALSE, attributes |-> FillAttributes,
                        window |-> h] : h \in WindowHeights}
    /\ cursor = [pos |-> InitCursor(cooked), hasMoved |-> FALSE]
    /\ sel = NoSelection
    /\ last \in {[NoCall EXCEPT !.op = "page", !.from = p] : p \in Cells}

\* case VK_NEXT of the Shift switch
PageDown ==
    /\ last.op = "page"
    /\ last' = [last EXCEPT !.op = "pageDown",
                            !.moved = LinePageDown(BufferEdges, settings.window, last.from)]
    /\ UNCHANGED <<screen, cooked, settings, cursor, sel>>

\* case VK_PRIOR of the Shift switch
PageUp ==
    /\ last.op = "page"
    /\ last' = [last EXCEPT !.op = "pageUp",
                            !.moved = LinePageUp(BufferEdges, settings.window, last.from)]
    /\ UNCHANGED <<screen, cooked, settings, cursor, sel>>

NextPage ==
    \/ PageDown
    \/ PageUp

SpecPage == InitPage /\ [][NextPage]_vars

\* ------------- the line keys with an edit line at the left edge and a window
\* whose height, added to a row, does not fit 16 bits

TallReads ==
    { NoCookedRead,
      [present |-> TRUE, start |-> Coord(0, 1), visible |-> 2],
      [present |-> TRUE, start |-> Coord(-1, -1), visible |-> 1] }

TallWindows == {WindowHeight, MaxShort}

InitTall ==
    /\ screen \in BufferKinds
    /\ cooked \in {c \in TallReads :
                     ~c.present \/ c.start.X < 0
                         \/ KAttrs(screen, c.start.X, c.start.Y) # ATTR_TRAILING_BYTE}
    /\ settings \in {[line |-> TRUE, color |-> FALSE, attributes |-> FillAttributes,
                        window |-> h] : h \in TallWindows}
    /\ cursor = [pos |-> InitCursor(cooked), hasMoved |-> FALSE]
    /\ sel = NoSelection
    /\ last = NoCall

TallKey == LineSelectionEventOf(LineEvents)

NextTall == TallKey

SpecTall == InitTall /\ [][NextTall]_vars

\* ------------------------------------------------------------ properties

\* the last step was an extend operation: a key the line handler handled, or a
\* navigation key of mark mode with Shift held
ExtendStep == last.op = "line" \/ (last.op = "mark" /\ last.ev.shift)

\* C1. The point passed to ExtendSelection by an extend operation (a line-mode
\* key, or a mark-mode navigation key with Shift held) is never a column of a
\* trailing half, over any of the buffers, bisected rows included.
C1_ExtendPointOffTrailingHalf ==
    (ExtendStep /\ last.ext # NoPoint /\ InBuffer(last.ext))
        => KAttrs(screen, last.ext.X, last.ext.Y) # ATTR_TRAILING_BYTE

\* C2. Once a selection has begun, an extend operation leaves the anchor where
\* it is; the anchor changes only when the selection is cleared, on a
\* navigation key of mark mode without Shift, or when a new selection is begun
\* in its place (a mouse press, mark mode entered).
C2_AnchorFixedAcrossExtends ==
    [][ sel.selecting =>
          /\ ExtendStep' => sel'.anchor = sel.anchor
          /\ sel'.anchor # sel.anchor =>
                \/ ~sel'.selecting
                \/ (last'.op = "mark" /\ ~last'.ev.shift)
                \/ last'.op \in {"mouseDown", "markMode"} ]_vars

\* an extend operation has moved the selection point away from the anchor
C2_ExtendedAwayFromAnchor ==
    /\ ExtendStep /\ last.ext # NoPoint
    /\ sel.selecting /\ sel.notEmpty
    /\ ClipCoord(last.ext) # sel.anchor

\* the key combinations of C3 as stated: exactly Shift or exactly Shift+Ctrl,
\* and any of the eight navigation keys
C3Stated(ev) == ev.shift /\ ~ev.alt /\ ev.key \in NavKeys

\* the key combinations the handler accepts: with Shift+Ctrl, not the page keys
C3Accepted(ev) ==
    C3Stated(ev) /\ (ev.ctrl => ev.key \notin {"VK_NEXT", "VK_PRIOR"})

\* C3 as stated. HandleKeyboardLineSelectionEvent returns handled if and only
\* if the modifiers are exactly Shift or exactly Shift+Ctrl and the key is one
\* of the eight navigation keys, and the validity check agrees with it.
C3_AcceptsAllEightUnderBoth ==
    last.via = "direct" =>
        /\ (last.result = "handled") <=> C3Stated(last.ev)
        /\ s_IsValidKeyboardLineSelection(last.ev) <=> (last.result = "handled")

\* C3 as amended. HandleKeyboardLineSelectionEvent returns handled if and only
\* if the modifiers are exactly Shift and the key is one of the eight
\* navigation keys, or the modifiers are exactly Shift+Ctrl and the key is one
\* of Left, Right, Up, Down, Home, End; the validity check agrees with it.
C3_AcceptsExactlyTheListedKeys ==
    last.via = "direct" =>
        /\ (last.result = "handled") <=> C3Accepted(last.ev)
        /\ s_IsValidKeyboardLineSelection(last.ev) <=> (last.result = "handled")

\* Shift+Ctrl+PageDown was offered to the handler and not handled
C3_ShiftCtrlPageDownRejected ==
    /\ last.via = "direct"
    /\ last.ev = Event("VK_NEXT", TRUE, TRUE, FALSE)
    /\ last.result = "notHandled"

\* C4. When HandleKeyboardLineSelectionEvent rejects a key it returns
\* not-handled and the selection (anchor, rectangle, flags, alternate mode,
\* visibility) and the cursor are as before, with or without a selection.
C4_RejectionChangesNothing ==
    [][ (last'.via = "direct" /\ ~C3Accepted(last'.ev)) =>
            /\ last'.result = "notHandled"
            /\ sel' = sel
            /\ cursor' = cursor ]_vars

\* a key was rejected while a selection with an area was active
C4_RejectedOverSelection ==
    /\ last.via = "direct" /\ last.result = "notHandled"
    /\ sel.selecting /\ sel.notEmpty
    /\ sel.rect.Left # sel.rect.Right

\* C5. Escape through the dispatcher with no mouse button held clears the
\* selection and returns EventHandled, whatever the selection and modifiers.
C5_EscapeClears ==
    [][ (last'.via = "dispatcher" /\ last'.ev.key = "VK_ESCAPE" /\ ~sel.mouseDown) =>
            /\ last'.result = "EventHandled"
            /\ ~sel'.selecting /\ ~sel'.mouse /\ ~sel'.notEmpty /\ ~sel'.visible ]_vars

\* Escape with Shift, Ctrl and Alt held has cleared a selection
C5_EscapeWithModifiersHandled ==
    /\ last.via = "dispatcher"
    /\ last.ev = Event("VK_ESCAPE", TRUE, TRUE, TRUE)
    /\ last.result = "EventHandled"
    /\ ~sel.selecting

\* Enter, or C or Insert with Ctrl held
C6Key(ev) == ev.key = "VK_RETURN" \/ (ev.ctrl /\ ev.key \in {"C", "VK_INSERT"})

\* C6. Enter, Ctrl+C or Ctrl+Insert through the dispatcher with no mouse button
\* held returns CopyToClipboard and leaves the selection as it is.
C6_CopyKeepsSelection ==
    [][ (last'.via = "dispatcher" /\ C6Key(last'.ev) /\ ~sel.mouseDown) =>
            /\ last'.result = "CopyToClipboard"
            /\ sel' = sel ]_vars

\* Ctrl+Insert over a selection with an area asked for the copy
C6_CtrlInsertCopies ==
    /\ last.via = "dispatcher"
    /\ last.ev = Event("VK_INSERT", FALSE, TRUE, FALSE)
    /\ last.result = "CopyToClipboard"
    /\ sel.selecting /\ sel.notEmpty

\* the key is taken by Escape, by the copy keys, by the color selection or, on
\* a line selection, by the line handler
C7Consumed(s, ev) ==
    \/ ev.key = "VK_ESCAPE"
    \/ C6Key(ev)
    \/ (settings.color /\ IsDigitKey(ev.key) /\ (ev.alt \/ ev.ctrl))
    \/ (IsLineSelection(s) /\ C3Accepted(ev))

\* C7. Over a mouse selection with no button held: a key nothing consumes and
\* that is no system key clears the selection, with EventNotHandled; a system
\* key leaves the selection as it is, with EventNotHandled; a key the line
\* handler accepts on a line selection never clears it.
C7_PassiveMouseSelectionKeys ==
    [][ (last'.via = "dispatcher" /\ sel.mouse /\ ~sel.mouseDown) =>
            /\ (~C7Consumed(sel, last'.ev) /\ ~IsSystemKey(last'.ev.key)) =>
                   (~sel'.selecting /\ last'.result = "EventNotHandled")
            /\ (~C7Consumed(sel, last'.ev) /\ IsSystemKey(last'.ev.key)) =>
                   (sel' = sel /\ last'.result = "EventNotHandled")
            /\ (IsLineSelection(sel) /\ C3Accepted(last'.ev)) =>
                   (sel'.selecting /\ last'.result = "EventHandled") ]_vars

\* the key A has cancelled a selection and was passed on
C7_PrintableKeyCancelled ==
    /\ last.via = "dispatcher"
    /\ last.ev = Event("A", FALSE, FALSE, FALSE)
    /\ last.result = "EventNotHandled"
    /\ ~sel.selecting

\* the edit line as the line handler sees it (the cursor does not move while
\* the line handler works)
EditLine == s_GetInputLineBoundaries(cursor.pos)

\* the last step was Shift+Home / Shift+End taken through the switch of the
\* line handler, from the selection point last.from
ShiftHomeStep ==
    last.op = "line" /\ last.ev = Event("VK_HOME", TRUE, FALSE, FALSE) /\ last.from # NoPoint

ShiftEndStep ==
    last.op = "line" /\ last.ev = Event("VK_END", TRUE, FALSE, FALSE) /\ last.from # NoPoint

\* where C8 says Shift+Home puts the selection point
C8Target ==
    IF EditLine.ok /\ last.from.Y = EditLine.start.Y /\ last.from.X > EditLine.start.X
    THEN Coord(EditLine.start.X, last.from.Y)
    ELSE Coord(0, last.from.Y)

\* C8. Shift+Home: with an edit line, from a point strictly after its start and
\* on its start row, the point goes to the start column of the edit line, on
\* the same row; in every other case to column 0 (and that point is the one
\* the selection is extended to unless its cell is a trailing half). A second
\* Shift+Home, from the start of the edit line, goes to column 0.
C8_ShiftHomeRule ==
    [][ /\ ShiftHomeStep' =>
              /\ last'.moved = C8Target'
              /\ (KAttrs(screen, C8Target'.X, C8Target'.Y) # ATTR_TRAILING_BYTE
                     => last'.ext = C8Target')
        /\ (/\ ShiftHomeStep /\ EditLine.ok /\ last.moved = EditLine.start
            /\ last.from # last.moved
            /\ ShiftHomeStep') =>
              /\ last'.from = last.moved
              /\ last'.moved = Coord(0, last.moved.Y) ]_vars

\* Shift+Home from inside the first row of the edit line has stopped at the
\* start of the edit line
C8_StoppedAtEditLineStart ==
    /\ ShiftHomeStep /\ EditLine.ok
    /\ last.from.Y = EditLine.start.Y /\ last.from.X > EditLine.start.X
    /\ EditLine.start.X > 0
    /\ last.moved = EditLine.start
    /\ last.ext = EditLine.start

\* the point is in the edit line / in the output before it (reading order)
InEditLine(p) == s_IsWithinBoundaries(p, EditLine.start, EditLine.end)

BeforeEditLine(p) == s_CompareCoords(p, EditLine.start) < 0

\* the column C9 says Shift+End puts the selection point in
C9StatedColumn ==
    IF InEditLine(last.from) /\ last.from.Y = EditLine.end.Y
    THEN EditLine.end.X
    ELSE IF BeforeEditLine(last.from) /\ last.from.Y = EditLine.start.Y
              /\ last.from.X < EditLine.start.X - 1
    THEN EditLine.start.X - 1
    ELSE IF BeforeEditLine(last.from) /\ last.from.Y = EditLine.start.Y
              /\ last.from.X = EditLine.start.X - 1
              /\ EditLine.start.Y = EditLine.end.Y
    THEN EditLine.end.X
    ELSE BufferWidth - 1

\* the same, with case (1) held to the points left of the end column
C9AmendedColumn ==
    IF InEditLine(last.from) /\ last.from.Y = EditLine.end.Y
           /\ last.from.X < EditLine.end.X
    THEN EditLine.end.X
    ELSE IF BeforeEditLine(last.from) /\ last.from.Y = EditLine.start.Y
              /\ last.from.X < EditLine.start.X - 1
    THEN EditLine.start.X - 1
    ELSE IF BeforeEditLine(last.from) /\ last.from.Y = EditLine.start.Y
              /\ last.from.X = EditLine.start.X - 1
              /\ EditLine.start.Y = EditLine.end.Y
    THEN EditLine.end.X
    ELSE BufferWidth - 1

\* C9 as stated. Shift+End with an edit line: (1) from inside the edit line on
\* its end row to the end column of the edit line; (2) from the output before
\* the edit line on its start row to the column before its start, and from
\* that column to the end column when the edit line ends on the same row;
\* (3) else to the rightmost column. The row stays.
C9_ShiftEndThreeCases ==
    (ShiftEndStep /\ EditLine.ok) => last.moved = Coord(C9StatedColumn, last.from.Y)

\* C9 as amended. Case (1) holds for the points of the edit line on its end
\* row that are strictly left of its end column; from the end column itself
\* the point goes to the rightmost column, as in case (3).
C9_ShiftEndLeftOfEndColumn ==
    (ShiftEndStep /\ EditLine.ok) =>
        /\ last.moved = Coord(C9AmendedColumn, last.from.Y)
        /\ (KAttrs(screen, last.moved.X, last.moved.Y) # ATTR_TRAILING_BYTE
               => last.ext = last.moved)

\* Shift+End from the end column of the edit line has gone to the rightmost
\* column
C9_FromEndColumnToRightmost ==
    /\ ShiftEndStep /\ EditLine.ok
    /\ last.from = EditLine.end
    /\ EditLine.end.X < BufferWidth - 1
    /\ last.moved = Coord(BufferWidth - 1, last.from.Y)

\* the scenario of C10, at the size of the model: the edit line lies in one
\* row, and the selection point is in that row, right of its end column
C10Scenario ==
    /\ ShiftEndStep /\ EditLine.ok
    /\ EditLine.start.X >= 0
    /\ EditLine.start.Y = EditLine.end.Y /\ EditLine.start.X <= EditLine.end.X
    /\ last.from.Y = EditLine.end.Y
    /\ last.from.X > EditLine.end.X

\* C10 as stated. With the edit line in columns 4-15 of a row, Shift+End from
\* column 20 of that row goes to column 15, the end column of the edit line.
C10_EndFromBeyondGoesToEditLineEnd ==
    C10Scenario => last.moved = Coord(EditLine.end.X, last.from.Y)

\* C10 as amended. From a column right of the end of the edit line, Shift+End
\* goes to the rightmost column of the buffer.
C10_EndFromBeyondGoesToRightmost ==
    C10Scenario =>
        /\ last.moved = Coord(BufferWidth - 1, last.from.Y)
        /\ (KAttrs(screen, last.moved.X, last.moved.Y) # ATTR_TRAILING_BYTE
               => last.ext = last.moved)

\* Shift+End from between the end of the edit line and the rightmost column
\* has gone to the rightmost column
C10_MovedPastEditLineEnd ==
    /\ C10Scenario
    /\ last.from.X < BufferWidth - 1
    /\ last.moved = Coord(BufferWidth - 1, last.from.Y)

\* the place of a cell in reading order
Flat(p) == p.Y * BufferWidth + p.X

CellAt(i) == Coord(i % BufferWidth, i \div BufferWidth)

LetterAt(i) == ~IsWordDelim(screen, CellAt(i).X, CellAt(i).Y)

\* the words (runs of letters between delimiters or the ends of the buffer,
\* as first and last place) that lie before place hi and begin at or after lo
WordsBetween(lo, hi) ==
    { w \in (0..(BufferWidth * BufferHeight - 1)) \X (0..(BufferWidth * BufferHeight - 1)) :
        /\ lo <= w[1] /\ w[1] <= w[2] /\ w[2] < hi
        /\ \A i \in w[1]..w[2] : LetterAt(i)
        /\ (w[1] = 0 \/ ~LetterAt(w[1] - 1))
        /\ ~LetterAt(w[2] + 1) }

\* C11 as stated. A forward word scan followed by a reverse scan from where it
\* ended ends at or before the point the forward scan started from, and has
\* passed over no entire word that lies before that point.
C11_RoundTripSkipsNoWord ==
    last.op = "wordReverse" =>
        /\ Flat(last.ext) <= Flat(last.from)
        /\ WordsBetween(Flat(last.ext), Flat(last.from)) = {}

\* C11 amended. The reverse scan ends at or before the point the forward scan
\* started from, or on the letter right after it when that point is a delimiter,
\* and has passed over at most one entire word that lies before that point.
C11_RoundTripSkipsAtMostOneWord ==
    last.op = "wordReverse" =>
        /\ Flat(last.ext) <= Flat(last.from) + 1
        /\ Flat(last.ext) > Flat(last.from) =>
               ~LetterAt(Flat(last.from)) /\ LetterAt(Flat(last.ext))
        /\ Cardinality(WordsBetween(Flat(last.ext), Flat(last.from))) <= 1

\* a round trip that went forward and came back over a whole word before its start
C11_PassedOverOneWord ==
    /\ last.op = "wordReverse"
    /\ Flat(last.moved) > Flat(last.from)
    /\ Cardinality(WordsBetween(Flat(last.ext), Flat(last.from))) = 1

\* a Right or Left key of mark mode has moved a cursor that was in the buffer
MarkStepOf(key) ==
    /\ last'.op = "mark" /\ last'.ev.key = key
    /\ InBuffer(cursor.pos)
    /\ cursor'.pos # cursor.pos

LeftOf(n) == KAttrs(screen, cursor.pos.X - n, cursor.pos.Y)

\* C12 as stated. In mark mode Right steps 2 columns from a leading half and 1
\* from any other cell; Left steps 2 when the cell to the left is a trailing
\* half, 3 when it is a leading half with a trailing half left of it, and 1 at
\* every other position.
C12_HorizontalStep ==
    [][ /\ MarkStepOf("VK_RIGHT") =>
              cursor'.pos = Coord(cursor.pos.X +
                                  (IF KAttrs(screen, cursor.pos.X, cursor.pos.Y) = ATTR_LEADING_BYTE
                                   THEN 2 ELSE 1), cursor.pos.Y)
        /\ MarkStepOf("VK_LEFT") =>
              cursor'.pos = Coord(cursor.pos.X -
                                  (IF LeftOf(1) = ATTR_TRAILING_BYTE THEN 2
                                   ELSE IF /\ LeftOf(1) = ATTR_LEADING_BYTE
                                           /\ cursor.pos.X >= 2
                                           /\ LeftOf(2) = ATTR_TRAILING_BYTE
                                   THEN 3
                                   ELSE 1), cursor.pos.Y) ]_vars

\* C12 amended. As stated, but Left steps 2 as well when the cell to the left is
\* a leading half that is not in column 0 and has no trailing half left of it.
C12_HorizontalStepPastLeadingHalf ==
    [][ /\ MarkStepOf("VK_RIGHT") =>
              cursor'.pos = Coord(cursor.pos.X +
                                  (IF KAttrs(screen, cursor.pos.X, cursor.pos.Y) = ATTR_LEADING_BYTE
                                   THEN 2 ELSE 1), cursor.pos.Y)
        /\ MarkStepOf("VK_LEFT") =>
              cursor'.pos = Coord(cursor.pos.X -
                                  (IF LeftOf(1) = ATTR_TRAILING_BYTE THEN 2
                                   ELSE IF LeftOf(1) = ATTR_LEADING_BYTE /\ cursor.pos.X >= 2
                                   THEN IF LeftOf(2) = ATTR_TRAILING_BYTE THEN 3 ELSE 2
                                   ELSE 1), cursor.pos.Y) ]_vars

\* Left was pressed with the cursor on the trailing half of a glyph that follows
\* a single-width character, and the cursor went to that character
C12_LeftFromTrailingHalf ==
    /\ last.op = "mark" /\ last.ev.key = "VK_LEFT"
    /\ InBuffer(last.from) /\ last.from.X >= 2
    /\ KAttrs(screen, last.from.X - 1, last.from.Y) = ATTR_LEADING_BYTE
    /\ KAttrs(screen, last.from.X - 2, last.from.Y) = ATTR_NONE
    /\ cursor.pos = Coord(last.from.X - 2, last.from.Y)

\* C13. On a navigation key of mark mode with Shift held, the alternate
\* selection flag takes the state of the Alt key when no area is selected yet
\* (the key starts the extension); on every later Shift key of the selection
\* it keeps its value, whatever the state of the Alt key.
C13_AltSampledWhenExtensionStarts ==
    [][ (last'.op = "mark" /\ last'.ev.shift) =>
            sel'.alt = (IF sel.notEmpty THEN sel.alt ELSE last'.ev.alt) ]_vars

\* a later Shift key arrived without Alt, and the selection begun with Alt held
\* is still an alternate selection
C13_AltKeptWithoutAltHeld ==
    /\ last.op = "mark" /\ last.ev.shift /\ ~last.ev.alt
    /\ last.area
    /\ sel.alt

\* C14. After a navigation key of mark mode without Shift no area is selected,
\* the alternate selection flag is false, the anchor is the new cursor position,
\* the selection rectangle is the one cell of the anchor and the cursor has
\* moved, whether or not an area was selected before the key.
C14_ResetAnchor ==
    (last.op = "mark" /\ ~last.ev.shift) =>
        /\ ~sel.notEmpty
        /\ ~sel.alt
        /\ sel.anchor = cursor.pos
        /\ sel.rect = [Left |-> sel.anchor.X, Top |-> sel.anchor.Y,
                       Right |-> sel.anchor.X, Bottom |-> sel.anchor.Y]
        /\ cursor.hasMoved

\* the anchor was reset by a key that moved the cursor while an area was selected
C14_ResetOverSelectedArea ==
    /\ last.op = "mark" /\ ~last.ev.shift
    /\ last.area
    /\ last.from # cursor.pos

\* a digit key reaches _HandleColorSelection: the console is selecting, no
\* mouse button is down and color selection is enabled
ColorKeyStep ==
    /\ sel.selecting /\ ~sel.mouseDown /\ settings.color
    /\ last'.via = "dispatcher" /\ IsDigitKey(last'.ev.key)

\* C15. A digit key is handled by _HandleColorSelection exactly when Alt or
\* Ctrl is held. With neither held nothing is colored, searched for or cleared
\* by it, and the dispatcher goes on: a keyboard selection stays as it is (the
\* digit is no navigation key of mark mode), a mouse selection with no button
\* down is cancelled, and the event is reported not handled.
C15_HandledWithAltOrCtrl ==
    [][ ColorKeyStep =>
          /\ (last'.op = "color") <=> (last'.ev.alt \/ last'.ev.ctrl)
          /\ (last'.result = "EventHandled") <=> (last'.ev.alt \/ last'.ev.ctrl)
          /\ ~(last'.ev.alt \/ last'.ev.ctrl) =>
                /\ last'.calls = <<>>
                /\ last'.result = "EventNotHandled"
                /\ IF sel.mouse THEN ~sel'.selecting
                   ELSE sel' = sel /\ cursor' = cursor ]_vars

\* a digit alone, or with Shift, was pressed over a keyboard selection with an
\* area, and the selection is still there
C15_BareDigitOverKeyboardSelection ==
    /\ last.via = "dispatcher" /\ IsDigitKey(last.ev.key)
    /\ ~last.ev.alt /\ ~last.ev.ctrl
    /\ last.result = "EventNotHandled"
    /\ sel.selecting /\ ~sel.mouse /\ sel.notEmpty

\* C16. For every digit d and every background b of the screen buffer the color
\* attribute is (d + 6) * 16, with a black foreground, when Ctrl is held without
\* Alt, and has d + 6 as its low nibble and b as its high nibble when Alt is
\* held, with or without Ctrl; d + 6 fits in one nibble and the attribute in 8
\* bits.
C16_ColorAttribute ==
    last.op = "color" =>
        LET d == DigitOf(last.ev.key)
            b == (settings.attributes \div 16) % 16
            ulAttr == last.calls[1].attr
        IN  /\ d + 6 < 16
            /\ ulAttr < 256
            /\ (last.ev.ctrl /\ ~last.ev.alt) => (ulAttr = (d + 6) * 16 /\ ulAttr % 16 = 0)
            /\ last.ev.alt => (ulAttr % 16 = d + 6 /\ ulAttr \div 16 = b)

\* Alt+Ctrl+9 was pressed over a colored background, with attribute bits above
\* the two nibbles set, and gave the brightest foreground on that background
C16_AltCtrlNine ==
    /\ last.op = "color" /\ last.ev.key = "9" /\ last.ev.alt /\ last.ev.ctrl
    /\ settings.attributes > 255 /\ BackgroundBits(settings.attributes) # 0
    /\ last.calls[1].attr = 15 + BackgroundBits(settings.attributes)

\* the search was called
FindAndColor(calls) == \E i \in DOMAIN calls : calls[i].call = "SearchForString"

\* C17. A color key takes the find-and-color path exactly when Shift is held,
\* an area is selected and the selection rectangle is one row high. With Shift
\* held over no area or over more than one row the key does what it does
\* without Shift: the selection rectangle is colored.
C17_ShiftFindsOverOneRow ==
    [][ (ColorKeyStep /\ last'.op = "color") =>
          /\ FindAndColor(last'.calls) <=>
                (last'.ev.shift /\ sel.notEmpty /\ sel.rect.Top = sel.rect.Bottom)
          /\ (last'.ev.shift /\ ~(sel.notEmpty /\ sel.rect.Top = sel.rect.Bottom)) =>
                /\ last'.calls[1].call = "ColorSelection"
                /\ last'.calls[1].rect = ClipRect(sel.rect)
                /\ \E r \in {HandleColorSelection(sel, cursor, [last'.ev EXCEPT !.shift = FALSE])} :
                      sel' = r.sel /\ cursor' = r.cursor /\ last'.calls = r.calls ]_vars

\* a color key was pressed with Shift over a selection of more than one row, and
\* the selection was colored
C17_ShiftOverRows ==
    /\ last.op = "color" /\ last.ev.shift /\ last.area
    /\ last.calls[1].call = "ColorSelection"
    /\ last.calls[1].rect.Top < last.calls[1].rect.Bottom

\* the names of the calls made, in their order
CallNames(calls) == [i \in DOMAIN calls |-> calls[i].call]

\* C18. When _HandleColorSelection has handled the key the selection is cleared,
\* an empty selection included. Without find-and-color the clipped selection
\* rectangle is colored and then the selection is cleared. With it the string
\* (the cells of the top row from the left column to the right one, at most
\* SEARCH_STRING_LENGTH of them) is copied first, the selection is cleared
\* next, and then the search is called, once.
C18_ClearedWhenHandled ==
    [][ (ColorKeyStep /\ last'.op = "color") =>
          /\ ~sel'.selecting
          /\ IF FindAndColor(last'.calls)
             THEN LET width == sel.rect.Right - sel.rect.Left + 1
                      len == IF width > SEARCH_STRING_LENGTH THEN SEARCH_STRING_LENGTH ELSE width
                      text == [Left |-> sel.rect.Left, Top |-> sel.rect.Top,
                               Right |-> sel.rect.Left + len - 1, Bottom |-> sel.rect.Top]
                  IN  /\ CallNames(last'.calls) = <<"memmove", "ClearSelection", "SearchForString">>
                      /\ last'.calls[1].rect = text /\ last'.calls[1].len = len
                      /\ last'.calls[3].rect = text /\ last'.calls[3].len = len
             ELSE /\ CallNames(last'.calls) = <<"ColorSelection", "ClearSelection">>
                  /\ last'.calls[1].rect = ClipRect(sel.rect) ]_vars

\* find-and-color over a selection wider than the longest search string: the
\* string was cut, the selection is gone
C18_FoundCutString ==
    /\ last.op = "color" /\ FindAndColor(last.calls)
    /\ last.calls[1].len = SEARCH_STRING_LENGTH
    /\ last.calls[1].rect.Right - last.calls[1].rect.Left + 1 = SEARCH_STRING_LENGTH
    /\ last.calls[1].rect.Left = 0
    /\ ~sel.selecting

\* an edit line with at least one visible character is being typed
HasEditLine == cooked.present /\ cooked.visible >= 1

\* the end of the valid area as C19 states it
C19ValidEnd ==
    IF HasEditLine THEN EditLine.end
    ELSE IF sel.selecting /\ ~sel.mouse THEN sel.saved
    ELSE cursor.pos

\* C19. GetValidAreaBoundaries returns the origin of the buffer as the start;
\* the end is the end of the edit line when there is one, else the saved cursor
\* position of a keyboard (mark) selection in progress, else the cursor
\* position. In mark mode with no edit line Ctrl+End puts the cursor in the row
\* of the saved cursor position and the last column of the buffer.
C19_ValidAreaEnd ==
    [][ /\ last'.op = "validArea" =>
              (last'.from = Coord(0, 0) /\ last'.moved = C19ValidEnd)
        /\ (last'.op = "mark" /\ last'.ev.key = "VK_END" /\ last'.ev.ctrl /\ ~cooked.present) =>
              cursor'.pos = Coord(BufferWidth - 1, sel.saved.Y) ]_vars

\* Ctrl+End in mark mode, with no edit line, took the cursor from another row
\* to the row where mark mode had found it
C19_CtrlEndToSavedRow ==
    /\ last.op = "mark" /\ last.ev.key = "VK_END" /\ last.ev.ctrl
    /\ ~cooked.present /\ sel.selecting
    /\ last.from.Y # sel.saved.Y
    /\ cursor.pos = Coord(BufferWidth - 1, sel.saved.Y)

\* the recorded start of the edit line is the invalid position
InvalidStart == cooked.start.X < 0 /\ cooked.start.Y < 0

\* C20 as stated. For an edit line with at least one visible character
\* s_GetInputLineBoundaries returns the recorded start, and as the end the
\* start plus the number of visible characters minus one, in wrapped buffer
\* coordinates; when the recorded start is the invalid position the end is the
\* cursor position.
C20_InputLineBoundaries ==
    (last.op = "inputLine" /\ HasEditLine) =>
        /\ last.result = "true"
        /\ last.from = cooked.start
        /\ last.moved = IF InvalidStart THEN cursor.pos
                        ELSE CellAt(Flat(cooked.start) + cooked.visible - 1)

\* C20 amended. As stated, but when the recorded start is the invalid position
\* the end is the cell before the cursor position (the cursor is behind the
\* last character typed).
C20_InputLineEndsBeforeCursor ==
    (last.op = "inputLine" /\ HasEditLine) =>
        /\ last.result = "true"
        /\ last.from = cooked.start
        /\ ~InvalidStart => last.moved = CellAt(Flat(cooked.start) + cooked.visible - 1)
        /\ (InvalidStart /\ Flat(cursor.pos) > 0) => last.moved = CellAt(Flat(cursor.pos) - 1)

\* the boundaries were asked for with an invalid recorded start and the cursor
\* in the first column of a row: the edit line ends in the last column of the
\* row above
C20_EndInRowAboveCursor ==
    /\ last.op = "inputLine" /\ HasEditLine /\ InvalidStart
    /\ cursor.pos.X = 0 /\ cursor.pos.Y > 0
    /\ last.moved = Coord(BufferWidth - 1, cursor.pos.Y - 1)

\* a is at or before b in reading order: in a row above, or in the same row and
\* not right of it
AtOrBefore(a, b) == a.Y < b.Y \/ (a.Y = b.Y /\ a.X <= b.X)

\* C21. s_IsWithinBoundaries(B, A, C) is true exactly when A is at or before B
\* and B is at or before C in reading order, so it is true when the three are
\* the same cell and false when B is before A or after C.
C21_WithinBoundaries ==
    last.op = "within" =>
        (last.result = "true" <=> (AtOrBefore(last.from, last.moved) /\ AtOrBefore(last.moved, last.ext)))

\* the test was applied to a position that is both ends of the boundary, in
\* the middle of a row, and was true
C21_SingleCellBoundary ==
    /\ last.op = "within" /\ last.result = "true"
    /\ last.from = last.moved /\ last.moved = last.ext
    /\ last.moved.X > 0 /\ last.moved.Y > 0

\* C22. Shift+PageDown and Shift+PageUp move the row of the selection point by
\* one window height and hold it at the bottom and the top of the buffer: for
\* every row of the buffer and every window height a SHORT can hold the row
\* that results is a row of the buffer.
C22_PageStaysInBuffer ==
    last.op \in {"pageDown", "pageUp"} =>
        /\ last.moved.X = last.from.X
        /\ last.moved.Y >= BufferEdges.Top /\ last.moved.Y <= BufferEdges.Bottom
        /\ last.op = "pageDown" =>
              last.moved.Y = (IF last.from.Y + settings.window > BufferEdges.Bottom
                              THEN BufferEdges.Bottom ELSE last.from.Y + settings.window)
        /\ last.op = "pageUp" =>
              last.moved.Y = (IF last.from.Y - settings.window < BufferEdges.Top
                              THEN BufferEdges.Top ELSE last.from.Y - settings.window)

\* the rectangle spanned by two cells
RectOf(a, p) ==
    [Left |-> IF p.X <= a.X THEN p.X ELSE a.X, Right |-> IF p.X <= a.X THEN a.X ELSE p.X,
     Top |-> IF p.Y <= a.Y THEN p.Y ELSE a.Y, Bottom |-> IF p.Y <= a.Y THEN a.Y ELSE p.Y]

\* C23. A valid combination received while no selection is active starts a
\* selection anchored at the cursor position, in line-selection mode and
\* shown; if the key is Shift+Left or Shift+Right (Shift only) the call
\* returns handled with the selection on the anchor cell alone, no move of the
\* selection point and no ExtendSelection; every other valid first key moves
\* the point from the anchor and extends the selection to the moved point.
C23_FirstKeyStartsSelection ==
    [][ (~sel.selecting /\ last'.via = "direct" /\ C3Accepted(last'.ev)) =>
            /\ last'.result = "handled"
            /\ sel'.selecting /\ sel'.mouse /\ sel'.visible
            /\ sel'.anchor = cursor.pos
            /\ (settings.line /\ ~sel'.alt) \/ (~settings.line /\ sel'.alt)
            /\ IF IsShiftOnly(last'.ev) /\ last'.ev.key \in {"VK_LEFT", "VK_RIGHT"}
               THEN /\ last'.moved = NoPoint
                    /\ last'.ext = NoPoint
                    /\ sel'.rect = RectOf(cursor.pos, cursor.pos)
               ELSE /\ last'.from = cursor.pos
                    /\ last'.moved # NoPoint
                    /\ last'.ext # NoPoint
                    /\ sel'.rect = RectOf(cursor.pos, ClipCoord(last'.ext)) ]_vars

\* Shift+Right was the first key, with line selection off in the settings: it
\* was handled and the selection sits on the cursor cell, not extended
C23_FirstKeyShiftRight ==
    /\ last.via = "direct"
    /\ last.ev = Event("VK_RIGHT", TRUE, FALSE, FALSE)
    /\ last.result = "handled"
    /\ last.ext = NoPoint
    /\ ~settings.line /\ sel.alt
    /\ sel.selecting /\ sel.visible
    /\ sel.anchor = cursor.pos
    /\ sel.rect = RectOf(cursor.pos, cursor.pos)

\* the last place of the buffer in reading order
LastPlace == BufferWidth * BufferHeight - 1

\* the left and right limits of a word scan, as places in reading order
WordLimitLeft ==
    IF cooked.present /\ cooked.visible > 0 THEN Flat(cooked.start) ELSE 0

WordLimitRight ==
    IF cooked.present /\ cooked.visible > 0
    THEN Flat(cooked.start) + cooked.visible - 1
    ELSE LastPlace

\* place a comes before place b in the direction of the scan
Ahead(fReverse, a, b) == IF fReverse THEN a > b ELSE a < b

\* the place of the point after the initial step of a scan from place from
ScanFirst(fReverse, from) ==
    IF fReverse THEN (IF from = 0 THEN 0 ELSE from - 1)
    ELSE (IF from = LastPlace THEN LastPlace ELSE from + 1)

\* the places at or after first, in the direction of the scan, where a limit
\* or the edge of the buffer stops the scan
LimitStops(fReverse, first) ==
    { q \in 0..LastPlace :
        /\ q = first \/ Ahead(fReverse, first, q)
        /\ \/ q = WordLimitLeft
           \/ q >= WordLimitRight
           \/ q = (IF fReverse THEN 0 ELSE LastPlace) }

\* the places after first where the scan sees the transition: a letter that
\* follows a delimiter going forward, a delimiter that precedes a letter in
\* reverse
Transitions(fReverse, first) ==
    { q \in 0..LastPlace :
        /\ Ahead(fReverse, first, q)
        /\ IF fReverse THEN LetterAt(q + 1) /\ ~LetterAt(q)
           ELSE ~LetterAt(q - 1) /\ LetterAt(q) }

\* the first place of a set in the direction of the scan
FirstOf(fReverse, S) == CHOOSE q \in S : \A r \in S : r = q \/ Ahead(fReverse, q, r)

\* a scan from place from stops on a limit before it sees a transition
StopsOnLimit(fReverse, from) ==
    LET first == ScanFirst(fReverse, from)
        t == FirstOf(fReverse, LimitStops(fReverse, first))
    IN  \A d \in Transitions(fReverse, first) : Ahead(fReverse, t, d)

\* where a scan that stops on a limit ends: on the limit, not stepped back
EndsOnLimit(fReverse, from, to) ==
    LET first == ScanFirst(fReverse, from)
    IN  StopsOnLimit(fReverse, from) => to = FirstOf(fReverse, LimitStops(fReverse, first))

\* where a scan that stops on the transition ends: one place back from the
\* transition cell when highlighting, on the transition cell when
\* un-highlighting (the point after the initial step has not reached the anchor)
EndsOnTransition(fReverse, from, to) ==
    LET first == ScanFirst(fReverse, from)
        d == FirstOf(fReverse, Transitions(fReverse, first))
        fUnhighlighting == Ahead(fReverse, first, Flat(sel.anchor))
    IN  ~StopsOnLimit(fReverse, from) =>
            to = IF fUnhighlighting THEN d
                 ELSE IF fReverse THEN d + 1 ELSE d - 1

C25_ScanStopsOnTransition ==
    /\ last.op = "wordForward" => EndsOnTransition(FALSE, Flat(last.from), Flat(last.moved))
    /\ last.op = "wordReverse" => EndsOnTransition(TRUE, Flat(last.moved), Flat(last.ext))

\* a forward scan that un-highlights ended on the first letter of the next
\* word, and the reverse scan that highlights ended one place after the
\* delimiter it saw
C25_BothCorrections ==
    /\ last.op = "wordReverse"
    /\ ~StopsOnLimit(FALSE, Flat(last.from))
    /\ Flat(last.from) + 1 < Flat(sel.anchor)
    /\ LetterAt(Flat(last.moved)) /\ ~LetterAt(Flat(last.moved) - 1)
    /\ Flat(last.moved) > Flat(last.from) + 1
    /\ ~StopsOnLimit(TRUE, Flat(last.moved))
    /\ Flat(last.moved) - 1 <= Flat(sel.anchor)
    /\ LetterAt(Flat(last.ext)) /\ ~LetterAt(Flat(last.ext) - 1)
    /\ Flat(last.ext) < Flat(last.moved) - 1

\* a key with Shift alone has moved the point of an existing selection
ShiftOnlyStep(key) ==
    /\ last.op = "line"
    /\ last.ev = Event(key, TRUE, FALSE, FALSE)
    /\ last.from # NoPoint

\* one position back / forward in reading order, wrapping between the rows
\* and staying put at the first / last cell of the buffer
OneBack(p) ==
    IF p.X > 0 THEN Coord(p.X - 1, p.Y)
    ELSE IF p.Y > 0 THEN Coord(BufferWidth - 1, p.Y - 1)
    ELSE p

OneForward(p) ==
    IF p.X < BufferWidth - 1 THEN Coord(p.X + 1, p.Y)
    ELSE IF p.Y < BufferHeight - 1 THEN Coord(0, p.Y + 1)
    ELSE p

\* C26. Shift+Left moves the selection point one position back and
\* Shift+Right one position forward in reading order, wrapping between the
\* last column of a row and column 0 of the adjacent row and staying put at
\* the buffer's extreme corner; when Shift+Right lands on a trailing-half
\* column the point advances one further column.
C26_ShiftLeftRight ==
    /\ ShiftOnlyStep("VK_LEFT") => last.moved = OneBack(last.from)
    /\ ShiftOnlyStep("VK_RIGHT") =>
           LET q == OneForward(last.from)
           IN  last.moved = IF KAttrs(screen, q.X, q.Y) = ATTR_TRAILING_BYTE
                            THEN Coord(q.X + 1, q.Y)
                            ELSE q

\* Shift+Right from the last column of a row wrapped to column 0 of the next
\* row, a trailing half, and went on to column 1
C26_RightWrappedPastTrailingHalf ==
    /\ ShiftOnlyStep("VK_RIGHT")
    /\ last.from.X = BufferWidth - 1
    /\ KAttrs(screen, 0, last.from.Y + 1) = ATTR_TRAILING_BYTE
    /\ last.moved = Coord(1, last.from.Y + 1)

\* the row one above / below, held at the top / bottom of the buffer
RowAfter(key, y) ==
    IF key = "VK_UP" THEN (IF y > 0 THEN y - 1 ELSE 0)
    ELSE (IF y < BufferHeight - 1 THEN y + 1 ELSE BufferHeight - 1)

\* C27. For every selection state Shift+Ctrl+Up gives the same resulting
\* selection as Shift+Up, and Shift+Ctrl+Down the same as Shift+Down: the
\* selection point's row moves by one, held at the top and bottom of the
\* buffer with no wraparound, and its column is unchanged before the glyph
\* nudge.
C27_CtrlUpDownAsUpDown ==
    [][ (last'.op = "line" /\ last'.via = "direct" /\ last'.ev.key \in {"VK_UP", "VK_DOWN"}) =>
            /\ last'.moved = Coord(last'.from.X, RowAfter(last'.ev.key, last'.from.Y))
            /\ \E r \in {HandleKeyboardLineSelectionEvent(
                             sel, cursor.pos,
                             Event(last'.ev.key, TRUE, ~last'.ev.ctrl, FALSE))} :
                   r.handled /\ r.sel = sel' /\ r.ext = last'.ext ]_vars

\* Shift+Ctrl+Up took the selection point of an existing selection up one
\* row from a row below the top, in its column
C27_CtrlUpMovedOneRow ==
    /\ last.op = "line"
    /\ last.ev = Event("VK_UP", TRUE, TRUE, FALSE)
    /\ last.area
    /\ last.from.Y > 0
    /\ last.from # sel.anchor
    /\ last.moved = Coord(last.from.X, last.from.Y - 1)

\* a row number held between the first and the last row of the buffer
HeldRow(y) == IF y < 0 THEN 0 ELSE IF y > BufferHeight - 1 THEN BufferHeight - 1 ELSE y

\* the rows a vertical key of mark mode moves the cursor by (down is positive)
MarkRows(key) ==
    CASE key = "VK_UP" -> -1
      [] key = "VK_DOWN" -> 1
      [] key = "VK_PRIOR" -> -(WindowHeight - 1)
      [] key = "VK_NEXT" -> WindowHeight - 1

\* C28. In mark mode Up and Down move the cursor exactly one row and PageUp
\* and PageDown move it (window height - 1) rows, with the resulting row held
\* in [0, buffer height - 1] and the column unchanged; Up at row 0 and Down at
\* the last row leave the cursor where it is.
C28_VerticalKeys ==
    (last.op = "mark" /\ last.ev.key \in {"VK_UP", "VK_DOWN", "VK_PRIOR", "VK_NEXT"}) =>
        /\ cursor.pos = Coord(last.from.X, HeldRow(last.from.Y + MarkRows(last.ev.key)))
        /\ (last.ev.key = "VK_UP" /\ last.from.Y = 0) => cursor.pos = last.from
        /\ (last.ev.key = "VK_DOWN" /\ last.from.Y = BufferHeight - 1) => cursor.pos = last.from

\* PageDown took the cursor (window height - 1) rows down, short of the last
\* row
C28_PageDownByWindowLessOne ==
    /\ last.op = "mark" /\ last.ev.key = "VK_NEXT"
    /\ cursor.pos = Coord(last.from.X, last.from.Y + WindowHeight - 1)
    /\ cursor.pos.Y < BufferHeight - 1
    /\ cursor.pos # last.from

\* C29. After any sequence of mark-mode navigation keys (Left, Right, Up,
\* Down, PageUp, PageDown, Home, End, with or without Ctrl and Shift) that
\* starts from a cursor inside the buffer, the cursor's column stays in
\* [0, buffer width - 1] and its row in [0, buffer height - 1], for every
\* glyph-half layout of the rows, the rows whose column 0 is a trailing half
\* and whose column 1 is a leading half included.
C29_CursorStaysInBuffer ==
    /\ cursor.pos.X >= 0 /\ cursor.pos.X <= BufferWidth - 1
    /\ cursor.pos.Y >= 0 /\ cursor.pos.Y <= BufferHeight - 1

\* C30. After any sequence of accepted line-extension keys, with or without
\* an edit line (an edit line whose recorded start is the invalid position or
\* whose start column is 0 included), the selection point passed to
\* ExtendSelection and the selection point derived at the start of the next
\* call lie within the rectangle of the buffer's edges.
C30_PointsStayInBuffer ==
    (last.op = "line" /\ last.from # NoPoint) =>
        InBuffer(last.from) /\ InBuffer(last.ext)

\* with a window height whose sum with a row of the buffer fits 16 bits, the
\* points of every accepted line-extension key lie within the buffer's edges
PointsStayInBufferWhenRowsFit ==
    (last.op = "line" /\ last.from # NoPoint /\ GetScreenWindowSizeY = WindowHeight) =>
        InBuffer(last.from) /\ InBuffer(last.moved) /\ InBuffer(last.ext)

\* C31. At the start of every line-extension call the selection point derived
\* from the stored rectangle and the anchor (the corner whose column is the
\* side of the rectangle that is not the anchor's column, and likewise for the
\* row) equals the point the previous call passed to ExtendSelection, for
\* every position of the point relative to the anchor.
C31_DerivedPointIsLastExtended ==
    [][ (/\ last.op = "line" /\ last.ext # NoPoint
         /\ last'.op = "line" /\ last'.from # NoPoint) =>
            last'.from = last.ext ]_vars

\* as C31, over the calls whose window height added to a row fits 16 bits
DerivedPointIsLastExtendedWhenRowsFit ==
    [][ (/\ last.op = "line" /\ last.ext # NoPoint
         /\ last'.op = "line" /\ last'.from # NoPoint
         /\ GetScreenWindowSizeY = WindowHeight) =>
            last'.from = last.ext ]_vars

\* a repeatable line-extension command has been handled from a point that is
\* not yet at its final target: Shift+End short of the rightmost column,
\* Shift+Ctrl+Right short of the bottom-right corner
RepeatedStep ==
    /\ last.op = "line"
    /\ \/ last.ev = Event("VK_END", TRUE, FALSE, FALSE) /\ last.from.X < BufferWidth - 1
       \/ last.ev = Event("VK_RIGHT", TRUE, TRUE, FALSE) /\ Flat(last.from) < LastPlace

\* C32. Repeating a line-extension command makes progress: each
\* Shift+Ctrl+Right and each Shift+End from a selection point that is not yet
\* at its final target strictly advances the selection point in reading order,
\* also when the edit line's end cell is a trailing half and the glyph nudge is
\* applied after the movement.
C32_RepeatedCommandAdvances ==
    RepeatedStep => Flat(last.ext) > Flat(last.from)

\* as C32, over the calls whose glyph nudge leaves the moved point in place
RepeatedCommandAdvancesWithoutNudge ==
    (RepeatedStep /\ last.ext = last.moved) => Flat(last.ext) > Flat(last.from)

\* there is an edit line with visible characters
WordEditLine == cooked.present /\ cooked.visible > 0

\* C33. A word scan is sticky within the edit line: with an edit line, a
\* reverse scan that starts strictly after the edit line's start never ends
\* before the start, and a forward scan that starts strictly before the edit
\* line's end never ends after the end; a further reverse scan from the edit
\* line's start does move past it into the output before it.
C33_StickyWithinEditLine ==
    WordEditLine =>
        /\ (last.op = "wordForward" /\ Flat(last.from) < WordLimitRight) =>
               Flat(last.moved) <= WordLimitRight
        /\ (last.op = "wordBack" /\ Flat(last.from) > WordLimitLeft) =>
               Flat(last.ext) >= WordLimitLeft
        /\ (last.op = "wordReverse" /\ Flat(last.moved) > WordLimitLeft) =>
               Flat(last.ext) >= WordLimitLeft
        /\ (last.op = "wordBack" /\ Flat(last.from) = WordLimitLeft) =>
               Flat(last.ext) < WordLimitLeft

\* a reverse scan from inside the edit line went over two cells or more and
\* was held on the edit line's start, with letters on the start and on the
\* cell before it, so that the limit alone stopped it
C33_ReverseHeldOnStart ==
    /\ WordEditLine
    /\ last.op = "wordBack"
    /\ Flat(last.from) > WordLimitLeft + 2
    /\ Flat(last.from) <= WordLimitRight
    /\ Flat(last.ext) = WordLimitLeft
    /\ LetterAt(WordLimitLeft) /\ LetterAt(WordLimitLeft - 1)

\* a word scan has been made
WordScanned == last.op \in {"wordForward", "wordReverse", "wordBack"}

\* C34. The final step-back correction of WordByWordSelection never fails:
\* whenever the loop ends with a successful move and the movement is
\* highlighting, the step against the direction of the scan succeeds, for
\* every start point, anchor, direction, row content and edit line.
C34_StepBackSucceeds ==
    WordScanned => last.scan.correction # "failed"

\* a forward scan saw the transition on the last cell of the buffer and
\* stepped back from it
C34_SteppedBackFromLastCell ==
    /\ last.op = "wordForward"
    /\ last.scan.moved
    /\ Flat(last.scan.loopEnd) = LastPlace
    /\ last.scan.correction = "moved"
    /\ Flat(last.moved) = LastPlace - 1

\* C35. WordByWordSelection terminates for every direction, start point,
\* anchor, buffer content and edit line: each pass through the loop either
\* breaks (limit reached or step failed) or moves the point one place in the
\* direction of the scan, so the loop is entered at most as many times as the
\* buffer has cells.
C35_LoopBounded ==
    WordScanned =>
        /\ last.scan.iterations >= 1
        /\ last.scan.iterations <= BufferWidth * BufferHeight
        /\ (IF last.scan.reverse
            THEN Flat(last.scan.first) - Flat(last.scan.loopEnd)
            ELSE Flat(last.scan.loopEnd) - Flat(last.scan.first))
             = last.scan.iterations - (IF last.scan.moved THEN 0 ELSE 1)

\* a forward scan from the first cell of the buffer went through the loop once
\* for every cell but the first and stopped on the last cell
C35_ScannedWholeBuffer ==
    /\ last.op = "wordForward"
    /\ Flat(last.from) = 0
    /\ Flat(last.scan.loopEnd) = LastPlace
    /\ ~last.scan.moved
    /\ last.scan.iterations = BufferWidth * BufferHeight - 1

====
